---- MODULE Spec2Model ----
(***************************************************************************)
(* Morpheus Sleep AI: agent orchestration and responsible-AI validation.   *)
(*                                                                         *)
(* The module models                                                       *)
(*   - the intent classifier of CoordinatorAgent (LLM-backed primary phase *)
(*     with its guard rule, and the keyword fallback),                    *)
(*   - the dependency-context predicate of AddictionAgent,                 *)
(*   - the validation engine's aggregation (comprehensive_check),          *)
(*   - the shared wrapper BaseAgent.handle with its error policy and its   *)
(*     critical rewrite,                                                   *)
(*   - CoordinatorAgent._handle_core: greeting, short-circuit, classify,   *)
(*     chained and single dispatch.                                        *)
(*                                                                         *)
(* Text is modelled by TLA+ strings, and Python's `k in t` by a real       *)
(* substring test on them.                                                 *)
(***************************************************************************)
EXTENDS Integers, Sequences, FiniteSets, TLC

VARIABLES
    pc,          \* position of the request's call chain inside Coordinator.handle
    message,     \* the request's message (None or a string)
    ctx,         \* the AgentContext passed by reference through the request
    ctx0,        \* the context as the caller supplied it (history variable)
    engine,      \* behaviour of the global `responsible_ai` during this request
    intent,      \* the classified label of this request, NoIntent before
    inflight,    \* sequence of domain agents whose handle is executing
    calls,       \* log of domain-agent invocations of this request
    engineLog,   \* log of comprehensive_check invocations of this request
    coreResp,    \* the value _handle_core of the Coordinator returns
    response,    \* the value Coordinator.handle returns
    served,      \* number of requests the shared coordinator has completed
    llmCalls,    \* provider calls made by the classifier during this request
    fallbackSeen,\* the last classification, if the provider was unavailable in it
    cl,          \* classifier harness: input and result of one classification
    eng,         \* engine harness: category verdicts and aggregated results
    ad,          \* adapter harness: one generate_gemini_text call, model by model
    chk,         \* category harness: one text under the three category checks
    st,          \* the shared StoryTellerAgent: its story_history and its requests
    rl           \* the global SecurityMiddleware: its rate limiter and its clock

vars == <<pc, message, ctx, ctx0, engine, intent, inflight, calls, engineLog,
          coreResp, response, served, llmCalls, fallbackSeen, cl, eng, ad, chk, st, rl>>

reqVars == <<pc, message, ctx, ctx0, engine, intent, inflight, calls, engineLog,
             coreResp, response, served, llmCalls, fallbackSeen>>

-----------------------------------------------------------------------------
(* Bounds of the model.                                                    *)

\* words (vocabulary phrases) per message drawn by the classifier harness
MaxWords == 2
\* requests served one after the other by the shared CoordinatorAgent
MaxRequests == 2

-----------------------------------------------------------------------------
(* Python values.                                                          *)

\* Python's None where a string is expected (never a text the program builds)
None == "<None>"

\* `x or ""` for an Optional[str]
OrEmpty(s) == IF s = None THEN "" ELSE s

\* truthiness of an Optional[str]
Truthy(s) == s # None /\ s # ""

-----------------------------------------------------------------------------
(* Strings.                                                                *)

UpperAlphabet == "ABCDEFGHIJKLMNOPQRSTUVWXYZ"
LowerAlphabet == "abcdefghijklmnopqrstuvwxyz"

\* `k in t` of two Python strings
Contains(t, k) ==
    \E i \in 1..(Len(t) - Len(k) + 1) : SubSeq(t, i, i + Len(k) - 1) = k

\* any(k in t for k in ks)
ContainsAny(t, ks) == \E k \in ks : Contains(t, k)

\* the characters of a string, as a set
Chars(s) == {SubSeq(s, i, i) : i \in 1..Len(s)}

UpperChars == Chars(UpperAlphabet)

\* the lower-case letter of each upper-case letter
LowerOf ==
    [c \in UpperChars |->
        LET i == CHOOSE j \in 1..26 : SubSeq(UpperAlphabet, j, j) = c
        IN  SubSeq(LowerAlphabet, i, i)]

LowerChar(c) == IF c \in UpperChars THEN LowerOf[c] ELSE c

\* str.lower(), computed by halves
RECURSIVE Lower(_)
Lower(s) ==
    IF Len(s) = 0 THEN ""
    ELSE IF Len(s) = 1 THEN LowerChar(s)
    ELSE LET h == Len(s) \div 2
         IN  Lower(SubSeq(s, 1, h)) \o Lower(SubSeq(s, h + 1, Len(s)))

IsSpace(c) == c \in {" ", "\t", "\n", "\r"}

\* str.lstrip(), str.rstrip(), str.strip()
RECURSIVE LStrip(_)
LStrip(s) ==
    IF Len(s) > 0 /\ IsSpace(SubSeq(s, 1, 1))
    THEN LStrip(SubSeq(s, 2, Len(s)))
    ELSE s

RECURSIVE RStrip(_)
RStrip(s) ==
    IF Len(s) > 0 /\ IsSpace(SubSeq(s, Len(s), Len(s)))
    THEN RStrip(SubSeq(s, 1, Len(s) - 1))
    ELSE s

Strip(s) == RStrip(LStrip(s))

\* str.replace(c, "") for a one-character c, computed by halves
RECURSIVE RemoveChar(_, _)
RemoveChar(s, c) ==
    IF Len(s) = 0 THEN ""
    ELSE IF Len(s) = 1 THEN (IF s = c THEN "" ELSE s)
    ELSE LET h == Len(s) \div 2
         IN  RemoveChar(SubSeq(s, 1, h), c) \o RemoveChar(SubSeq(s, h + 1, Len(s)), c)

\* the first item of str.split(), None when split() is empty
RECURSIVE UpToSpace(_)
UpToSpace(s) ==
    IF Len(s) = 0 \/ IsSpace(SubSeq(s, 1, 1)) THEN ""
    ELSE SubSeq(s, 1, 1) \o UpToSpace(SubSeq(s, 2, Len(s)))

FirstToken(s) ==
    LET t == LStrip(s) IN IF Len(t) = 0 THEN None ELSE UpToSpace(t)

-----------------------------------------------------------------------------
(* AddictionAgent: the dependency-context predicate.                       *)

TRIGGERS == {"addict", "dependen", "craving", "withdrawal", "quit"}

\* every keyword of SUBSTANCE_PATTERNS, whatever its substance
SUBSTANCE_PATTERNS ==
    {"coffee", "coffe", "tea", "energy drink", "caffeine", "caffine",
     "caffiene", "cafine", "cafeine", "espresso", "latte", "cappuccino",
     "red bull", "monster"}
    \cup {"wine", "beer", "vodka", "whiskey", "drinking", "alcohol",
          "cocktail", "rum", "gin", "tequila"}
    \cup {"smoking", "cigarette", "vaping", "nicotine", "tobacco", "juul",
          "e-cigarette", "cigar"}
    \cup {"phone", "social media", "scrolling", "screen time", "gaming",
          "netflix", "youtube", "tiktok", "instagram"}

neutral_info_phrases ==
    {"tell me about", "what is", "what are", "explain", "definition of",
     "effects of", "effect of", "impact of", "how does", "why does"}

concerning_phrases ==
    {"too much", "can't stop", "every day", "multiple times", "worry about",
     "problem with", "bad habit", "need to quit"}

\* AddictionAgent._detect_addiction_context(message)
detect_addiction_context(msg) ==
    IF ~Truthy(msg) THEN FALSE
    ELSE LET t == Lower(msg) IN
         IF ContainsAny(t, neutral_info_phrases) /\ ~ContainsAny(t, TRIGGERS)
         THEN FALSE
         ELSE IF ContainsAny(t, TRIGGERS) THEN TRUE
         ELSE ContainsAny(t, SUBSTANCE_PATTERNS)
                  /\ ContainsAny(t, concerning_phrases)

-----------------------------------------------------------------------------
(* CoordinatorAgent: the intent classifier.                                *)

ALLOWED ==
    {"analytics", "coach", "information", "nutrition", "storyteller",
     "addiction", "prediction"}

analytics_keywords == {"analy", "trend", "week", "report", "summary", "insight"}

prediction_keywords ==
    {"predict", "tonight", "tomorrow", "quality", "bedtime", "when should",
     "optimal"}

personal_cues ==
    {"my ", "i ", "i'm", "i am", "based on my", "my logs", "last night",
     "last week", "should i", "what should i"}

lifestyle_terms ==
    {"caffeine", "coffee", "alcohol", "diet", "food", "eating", "exercise",
     "workout", "screens", "screen"}

info_keywords ==
    {"explain", "what is", "define", "tell me about", "effect of",
     "impact of", "how does"}

coach_keywords == {"plan", "tips", "improve", "advice", "coach"}

\* the substance words of the guard rule in _intent_llm
guard_terms ==
    {"caffeine", "coffee", "alcohol", "nicotine", "smoking", "screen",
     "screens"}

\* a faulty fallback: the label depends on how many requests the coordinator
\* has served
intent_keyword_by_turn(msg) ==
    IF served = 0 THEN "coach" ELSE "nutrition"

\* a faulty fallback: the prediction words are tested before the analytics
\* words, and nothing else
intent_keyword_prediction_first(msg) ==
    IF ContainsAny(Lower(OrEmpty(msg)), prediction_keywords) THEN "prediction"
    ELSE IF ContainsAny(Lower(OrEmpty(msg)), analytics_keywords) THEN "analytics"
    ELSE "coach"

\* a faulty fallback: no decision for a message without text
intent_keyword_undecided(msg) ==
    IF ~Truthy(msg) THEN None ELSE "coach"

\* a faulty fallback: a message that asks for a story is labelled storyteller
intent_keyword_stories(msg) ==
    IF Contains(Lower(OrEmpty(msg)), "story") THEN "storyteller" ELSE "coach"

\* CoordinatorAgent._intent_keyword(msg): the deterministic fallback
intent_keyword(msg) ==
    LET t == Lower(OrEmpty(msg)) IN
    IF ContainsAny(t, analytics_keywords) THEN "analytics"
    ELSE IF ContainsAny(t, prediction_keywords) THEN "prediction"
    ELSE IF detect_addiction_context(msg) THEN "addiction"
    ELSE IF ContainsAny(t, lifestyle_terms)
         THEN IF ContainsAny(t, personal_cues) THEN "nutrition"
              ELSE IF ContainsAny(t, info_keywords) THEN "information"
              ELSE "nutrition"
    ELSE IF ContainsAny(t, coach_keywords) THEN "coach"
    ELSE "coach"

\* What the language-model provider does when the primary phase asks it:
\* gemini_ready() is false, generate_gemini_text raises, or it returns raw
\* (None for "nothing").
LLMUnavailable == [kind |-> "unavailable", raw |-> None]
LLMRaises      == [kind |-> "raises", raw |-> None]
LLMReply(r)    == [kind |-> "reply", raw |-> r]

\* the normalisation of the provider's reply: cleaned[0], None if no token
normalize_reply(raw) ==
    FirstToken(RemoveChar(RemoveChar(RemoveChar(
        Lower(Strip(OrEmpty(raw))), "'"), "\""), "."))

\* a faulty guard rule: the unconfirmed answer is kept
guard_remap_keeping_answer(msg) == "addiction"

\* the guard rule: the label an unconfirmed "addiction" answer is demoted to
guard_remap(msg) ==
    LET t == Lower(OrEmpty(msg)) IN
    IF ContainsAny(t, guard_terms)
    THEN IF ContainsAny(t, personal_cues) THEN "nutrition" ELSE "information"
    ELSE "coach"

\* a faulty primary phase: the provider's label is returned without the guard
intent_llm_unguarded(msg, llm) ==
    IF llm.kind # "reply" THEN None
    ELSE IF normalize_reply(llm.raw) \in ALLOWED THEN normalize_reply(llm.raw)
    ELSE None

\* CoordinatorAgent._intent_llm(message): a label, or None for no decision
intent_llm(msg, llm) ==
    IF llm.kind = "unavailable" THEN None
    ELSE IF llm.kind = "raises" THEN None
    ELSE LET choice == normalize_reply(llm.raw) IN
         IF choice = None THEN None
         ELSE IF choice \notin ALLOWED THEN None
         ELSE IF choice = "addiction" /\ ~detect_addiction_context(msg)
              THEN guard_remap(msg)
         ELSE choice

\* a faulty classifier: the primary phase's result with no fallback
classify_primary_only(msg, llm) == intent_llm(msg, llm)

\* the right operand of the `or` below: evaluated only when the primary phase
\* decided nothing; None when it is not evaluated
fallback_if_consulted(msg, llm) ==
    IF Truthy(intent_llm(msg, llm)) THEN None ELSE intent_keyword(msg)

\* `await self._intent_llm(message) or self._intent_keyword(message)`
classify(msg, llm) ==
    LET primary == intent_llm(msg, llm) IN
    IF Truthy(primary) THEN primary ELSE intent_keyword(msg)

-----------------------------------------------------------------------------
(* Inputs of the classifier.                                               *)

\* phrases the drawn messages are built from: one or more per predicate of
\* the classifier and of the dependency-context predicate
Vocab ==
    {"Analyze", "tonight", "quit", "coffee", "too much", "my", "explain",
     "plan", "story", "smoking"}

\* the messages of at most n phrases, joined by single spaces
RECURSIVE Phrases(_)
Phrases(n) ==
    IF n = 0 THEN {""}
    ELSE LET shorter == Phrases(n - 1) IN
         shorter \cup {IF m = "" THEN w ELSE m \o " " \o w :
                          m \in shorter, w \in Vocab}

\* empty, blank and greeting messages, no message at all, and the request the
\* welcome menu suggests for a story
SpecialMessages ==
    {None, "", "  ", "hi", "Hello ", " HEY", "hi there",
     "Tell me a bedtime story"}

Messages == Phrases(MaxWords) \cup SpecialMessages

\* replies of the provider to the routing prompt
Replies ==
    {None, "", " \n", "analytics", "Coach.", "'information'", "nutrition\n",
     "\"Storyteller\"", "addiction", " Addiction. The user wants to quit",
     "prediction", "sleep", "I think coach"}

LLMOutcomes == {LLMUnavailable, LLMRaises} \cup {LLMReply(r) : r \in Replies}

\* what the provider does during the requests of the coordinator
RequestLLMs ==
    {LLMUnavailable, LLMRaises, LLMReply("analytics"), LLMReply("addiction"),
     LLMReply("\"Storyteller\"")}

-----------------------------------------------------------------------------
(* Regular-expression pieces used by the validation engine.  Every pattern *)
(* is searched with re.IGNORECASE, so the operators below are applied to   *)
(* the lower-cased text.                                                   *)

Digits == "0123456789"
WordChars == "abcdefghijklmnopqrstuvwxyzABCDEFGHIJKLMNOPQRSTUVWXYZ0123456789_"

CharAt(t, i) == SubSeq(t, i, i)

DigitChars == Chars(Digits)
LetterChars == Chars(LowerAlphabet \o UpperAlphabet)
WordCharSet == Chars(WordChars)

IsDigit(c) == c \in DigitChars
IsLetter(c) == c \in LetterChars
IsWordChar(c) == c \in WordCharSet

\* whether position i of t holds a word character (false outside the text)
WordAt(t, i) == i \in 1..Len(t) /\ IsWordChar(CharAt(t, i))

\* \b between the characters i-1 and i of t
Boundary(t, i) == WordAt(t, i - 1) # WordAt(t, i)

\* the literal k occurs in t from position i on
OccursAt(t, k, i) == i >= 1 /\ i + Len(k) - 1 <= Len(t) /\ SubSeq(t, i, i + Len(k) - 1) = k

Positions(t, k) == {i \in 1..(Len(t) - Len(k) + 1) : OccursAt(t, k, i)}

\* re.search(r"\bk\b", t), re.search(r"\bk", t), re.search(r"k\b", t)
MatchB(t, k)  == \E i \in Positions(t, k) : Boundary(t, i) /\ Boundary(t, i + Len(k))
MatchBL(t, k) == \E i \in Positions(t, k) : Boundary(t, i)
MatchBR(t, k) == \E i \in Positions(t, k) : Boundary(t, i + Len(k))

\* all characters of t from i to j belong to the class
AllIn(t, i, j, class) == \A n \in i..j : CharAt(t, n) \in class

\* [A-Za-z0-9._%+-], [A-Za-z0-9.-] and [A-Z|a-z]
EmailLocalChars == WordCharSet \cup {".", "%", "+", "-"}
EmailHostChars == LetterChars \cup DigitChars \cup {".", "-"}
EmailTopChars == LetterChars \cup {"|"}

\* r"\b(p1|p2|...) (from|in) [A-Z][a-z]+\b": the prefix, then at least two
\* letters ending at a word boundary
MatchCultural(t) ==
    \E k \in {a \o " " \o b \o " " :
                  a \in {"all people", "everyone", "typical", "normal"},
                  b \in {"from", "in"}} :
        \E i \in Positions(t, k) :
            /\ Boundary(t, i)
            /\ \E j \in (i + Len(k) + 1)..Len(t) :
                   /\ \A n \in (i + Len(k))..j : IsLetter(CharAt(t, n))
                   /\ Boundary(t, j + 1)

\* r"\b\d{3}-\d{2}-\d{4}\b"
MatchSSN(t) ==
    \E i \in Positions(t, "-") :
        /\ i >= 4 /\ i + 7 <= Len(t)
        /\ \A n \in (i - 3)..(i - 1) : IsDigit(CharAt(t, n))
        /\ \A n \in (i + 1)..(i + 2) : IsDigit(CharAt(t, n))
        /\ CharAt(t, i + 3) = "-"
        /\ \A n \in (i + 4)..(i + 7) : IsDigit(CharAt(t, n))
        /\ Boundary(t, i - 3) /\ Boundary(t, i + 8)

\* r"\b[A-Za-z0-9._%+-]+@[A-Za-z0-9.-]+\.[A-Z|a-z]{2,}\b"
MatchEmail(t) ==
    \E p \in Positions(t, "@") :
        /\ \E b \in 1..(p - 1) :
               /\ AllIn(t, b, p - 1, EmailLocalChars)
               /\ Boundary(t, b)
        /\ \E d \in (p + 2)..Len(t) :
               /\ CharAt(t, d) = "."
               /\ AllIn(t, p + 1, d - 1, EmailHostChars)
               /\ \E e \in (d + 2)..Len(t) :
                      /\ AllIn(t, d + 1, e, EmailTopChars)
                      /\ Boundary(t, e + 1)

\* r"\b\d{10,}\b"
MatchPhone(t) ==
    \E i \in 1..(Len(t) - 9) :
        /\ Boundary(t, i)
        /\ \E j \in (i + 9)..Len(t) :
               /\ \A n \in i..j : IsDigit(CharAt(t, n))
               /\ Boundary(t, j + 1)

\* r"\$\d+,?\d*\.?\d{0,2}": a dollar sign and a digit
MatchDollar(t) ==
    \E i \in Positions(t, "$") : i + 1 <= Len(t) /\ IsDigit(CharAt(t, i + 1))

-----------------------------------------------------------------------------
(* ResponsibleAIMiddleware: the three category checks.                     *)
(*                                                                         *)
(* A ResponsibleAICheck is a record [passed, risk_level, category,         *)
(* message, suggestions]; its diagnostic `metadata` map is not modelled.   *)
(* An issue about a bias pattern names the bias type and leaves out the    *)
(* matched fragment of the text.                                           *)

RiskLevels == <<"low", "medium", "high", "critical">>

\* ["low", "medium", "high", "critical"].index(r)
RiskIndex(r) == CHOOSE i \in 1..Len(RiskLevels) : RiskLevels[i] = r

Opt(cond, items) == IF cond THEN items ELSE <<>>

\* sep.join(items)
RECURSIVE JoinWith(_, _)
JoinWith(items, sep) ==
    IF Len(items) = 0 THEN ""
    ELSE IF Len(items) = 1 THEN items[1]
    ELSE items[1] \o sep \o JoinWith(Tail(items), sep)

\* sum(1 for term in terms if term in t)
CountIn(t, terms) == Cardinality({k \in terms : Contains(t, k)})

ResponsibleAICheck(passed, risk, category, issue_text, suggestions) ==
    [passed |-> passed, risk_level |-> risk, category |-> category,
     message |-> issue_text, suggestions |-> suggestions]

\* self.fairness_patterns, each pattern a predicate of the lower-cased text
FairnessMatches(t) ==
    <<<<"age bias", \E k \in {"too old", "too young", "at your age",
                              "elderly", "senior"} : MatchB(t, k)>>,
      <<"age bias", MatchBL(t, "young people") \/ MatchBR(t, "older people")>>,
      <<"gender bias", \E a \in {"men", "women", "male", "female"} :
                       \E b \in {"are", "should", "need to", "typically"} :
                           MatchB(t, a \o " " \o b)>>,
      <<"gender bias", MatchB(t, "gender-specific")>>,
      <<"cultural bias", MatchCultural(t)>>,
      <<"cultural bias", MatchB(t, "cultural assumptions")>>,
      <<"socioeconomic bias", \E a \in {"poor", "rich", "wealthy", "low-income",
                                        "high-income"} :
                                  MatchB(t, a \o " people")>>,
      <<"socioeconomic bias", MatchB(t, "expensive solutions only")>>,
      <<"accessibility bias", \E a \in {"walk", "run", "exercise", "go to gym"} :
                                  MatchB(t, "just " \o a)>>,
      <<"accessibility bias", \E a \in {"avoid", "stop", "change"} :
                                  MatchB(t, "simply " \o a)>>,
      <<"medical assumptions", MatchB(t, "all patients with")>>,
      <<"medical assumptions", MatchB(t, "everyone with your condition")>>>>

RECURSIVE BiasIssues(_)
BiasIssues(matches) ==
    IF Len(matches) = 0 THEN <<>>
    ELSE Opt(matches[1][2], <<"Potential " \o matches[1][1] \o " detected">>)
             \o BiasIssues(Tail(matches))

inclusive_terms ==
    {"everyone", "all people", "individuals", "people", "users", "may",
     "might", "could", "consider", "explore", "options"}

exclusive_terms ==
    {"all women", "all men", "typical", "normal", "standard",
     "everyone should", "you must", "always", "never"}

\* _calculate_inclusive_language_score(text) < 0.7
InclusiveScoreLow(t) ==
    LET inc == CountIn(t, inclusive_terms)
        exc == CountIn(t, exclusive_terms)
    IN  inc + exc # 0 /\ 10 * inc < 7 * (inc + exc + 1)

accessible_language ==
    {"alternative", "option", "adapt", "modify", "accommodate",
     "if you're able", "as comfortable", "within your abilities"}

inaccessible_language == {"just", "simply", "easy", "quick", "obviously", "clearly"}

\* _check_accessibility_considerations(text) < 0.8
AccessibilityScoreLow(t) ==
    LET acc == CountIn(t, accessible_language)
        ina == CountIn(t, inaccessible_language)
    IN  acc + ina # 0 /\ 5 * (acc + 1) < 4 * (acc + ina + 1)

\* _contains_stereotyping(text, user_context)
contains_stereotyping(t) ==
    \/ Contains(t, "people like you")
    \/ \E a \in {"age", "gender", "background"} : Contains(t, "given your " \o a)
    \/ Contains(t, "typical for someone who")
    \/ \E a \in {"men", "women", "people"} : Contains(t, "most " \o a \o " your age")

\* a faulty fairness result: stereotyping is a critical finding
fairness_result_stereotyping_critical(bias, incl, acc, stereo) ==
    ResponsibleAICheck(~stereo /\ ~incl /\ ~acc /\ bias = <<>>,
        IF stereo THEN "critical" ELSE IF incl \/ bias # <<>> THEN "medium" ELSE "low",
        "fairness", "Fairness check", <<>>)

\* check_fairness once its four findings are known: the bias issues, the two
\* low scores and the stereotyping test
fairness_result(bias, incl, acc, stereo) ==
    LET issues == bias
                  \o Opt(incl, <<"Response may not be sufficiently inclusive">>)
                  \o Opt(acc, <<"Response may not consider accessibility needs">>)
                  \o Opt(stereo, <<"Response may contain stereotyping">>)
        suggestions ==
            Opt(incl, <<"Use more inclusive language that considers diverse backgrounds">>)
            \o Opt(acc, <<"Include alternatives for users with different abilities">>)
            \o Opt(stereo, <<"Provide personalized advice based on individual data, not assumptions">>)
            \o Opt(issues = <<>>, <<"Response appears fair and unbiased">>)
        risk   == IF stereo THEN "high"
                  ELSE IF incl THEN "medium"
                  ELSE IF bias # <<>> THEN "medium"
                  ELSE "low"
    IN  ResponsibleAICheck(issues = <<>>, risk, "fairness",
            IF issues = <<>> THEN "Fairness check passed" ELSE JoinWith(issues, "; "),
            suggestions)

\* check_fairness on the lower-cased text
fairness_of(t) ==
    fairness_result(BiasIssues(FairnessMatches(t)), InclusiveScoreLow(t),
                    AccessibilityScoreLow(t), contains_stereotyping(t))

\* ResponsibleAIMiddleware.check_fairness(text, user_context)
check_fairness(text) == fairness_of(Lower(text))

transparency_required_actions ==
    {"personalized_recommendation", "data_analysis", "pattern_detection",
     "risk_assessment", "behavioral_change_suggestion", "sleep_coaching_plan"}

contains_explanation(t) ==
    ContainsAny(t, {"based on", "because", "due to", "analysis shows",
                    "data indicates", "considering your", "taking into account",
                    "the reason", "this suggests"})

contains_data_source_info(t) ==
    ContainsAny(t, {"your sleep logs", "based on your data", "from your records",
                    "your sleep history", "tracking shows", "your patterns"})

acknowledges_limitations(t) ==
    ContainsAny(t, {"disclaimer", "not medical advice", "consult",
                    "healthcare provider", "limitations", "may not apply",
                    "individual results", "seek professional"})

has_clear_attribution(t) ==
    ContainsAny(t, {"ai", "algorithm", "automated", "system", "morpheus",
                    "sleep coach", "digital assistant"})

\* _explains_decision_factors(text, decision_factors), the factors given by
\* the set of their names
explains_decision_factors(t, decision_factors) ==
    \/ decision_factors = {}
    \/ 2 * Cardinality({f \in decision_factors : Contains(t, Lower(f))})
           >= Cardinality(decision_factors)

\* a faulty transparency result: unexplained decision factors weigh no more
\* than a missing self-identification
transparency_result_factors_low(noExpl, noSource, noLimits, noAttr, noFactor) ==
    ResponsibleAICheck(~(noExpl \/ noSource \/ noLimits \/ noAttr \/ noFactor),
        IF noAttr \/ noFactor THEN "low"
        ELSE IF noExpl \/ noSource \/ noLimits THEN "medium"
        ELSE "low",
        "transparency", "Transparency check", <<>>)

\* check_transparency once its five findings are known
transparency_result(noExpl, noSource, noLimits, noAttr, noFactor) ==
    LET issues ==
            Opt(noExpl, <<"Response lacks explanation of AI reasoning">>)
            \o Opt(noSource, <<"Response doesn't disclose data sources used">>)
            \o Opt(noLimits, <<"Response doesn't acknowledge AI limitations">>)
            \o Opt(noAttr, <<"Response doesn't clearly identify it's from AI">>)
            \o Opt(noFactor, <<"Key decision factors not explained to user">>)
        suggestions ==
            Opt(noExpl, <<"Add explanation of how recommendations were generated">>)
            \o Opt(noSource, <<"Mention what data was analyzed to generate this response">>)
            \o Opt(noLimits, <<"Include disclaimer about AI limitations and when to seek human help">>)
            \o Opt(noAttr, <<"Make it clear this is AI-generated advice">>)
            \o Opt(noFactor, <<"Explain what factors influenced this recommendation">>)
            \o Opt(issues = <<>>, <<"Response meets transparency requirements">>)
        \* the assignments to risk_level, the last one made wins
        risk == IF noFactor THEN "medium"
                ELSE IF noAttr THEN "low"
                ELSE IF noExpl \/ noSource \/ noLimits THEN "medium"
                ELSE "low"
    IN  ResponsibleAICheck(issues = <<>>, risk, "transparency",
            IF issues = <<>> THEN "Transparency check passed" ELSE JoinWith(issues, "; "),
            suggestions)

\* check_transparency on the lower-cased text; required tells whether the
\* action type is one of transparency_required_actions
transparency_of(t, required, decision_factors) ==
    transparency_result(
        required /\ ~contains_explanation(t),
        required /\ ~contains_data_source_info(t),
        required /\ ~acknowledges_limitations(t),
        ~has_clear_attribution(t),
        decision_factors # {} /\ ~explains_decision_factors(t, decision_factors))

\* ResponsibleAIMiddleware.check_transparency(text, action_type, data_sources,
\* decision_factors); data_sources only reaches the metadata
check_transparency(text, action_type, decision_factors) ==
    transparency_of(Lower(text), action_type \in transparency_required_actions,
                    decision_factors)

\* self.privacy_sensitive_data, each pattern a predicate of the lower-cased
\* text: _detect_privacy_violations(text)
PrivacyMatches(t) ==
    <<<<"personal identifiers", MatchSSN(t)>>,
      <<"personal identifiers", MatchEmail(t)>>,
      <<"personal identifiers", MatchPhone(t)>>,
      <<"medical details", MatchBL(t, "medication:") \/ Contains(t, "prescription:")
                               \/ Contains(t, "diagnosis:")>>,
      <<"medical details", MatchBL(t, "doctor said") \/ Contains(t, "physician")
                               \/ Contains(t, "specialist") \/ Contains(t, "therapist")>>,
      <<"location data", MatchBL(t, "address:") \/ Contains(t, "live at")
                             \/ Contains(t, "located at")>>,
      <<"location data", MatchBL(t, "gps") \/ Contains(t, "coordinates")
                             \/ Contains(t, "latitude") \/ Contains(t, "longitude")>>,
      <<"financial info", MatchBL(t, "income:") \/ Contains(t, "salary:")
                              \/ Contains(t, "credit card") \/ Contains(t, "bank account")>>,
      <<"financial info", MatchDollar(t)>>>>

RECURSIVE PrivacyViolations(_)
PrivacyViolations(matches) ==
    IF Len(matches) = 0 THEN <<>>
    ELSE Opt(matches[1][2], <<"Potential " \o matches[1][1] \o " exposure detected">>)
             \o PrivacyViolations(Tail(matches))

essential_fields ==
    {"sleep_duration", "bedtime", "wake_time", "sleep_quality", "awakenings",
     "user_id", "date"}

sensitive_fields ==
    {"medical_conditions", "medications", "mental_health", "personal_notes",
     "location", "financial_info"}

\* _follows_data_minimization(user_data), user_data given by its keys
follows_data_minimization(keys) == Cardinality(keys \ essential_fields) <= 3

\* _handles_sensitive_data(user_data)
handles_sensitive_data(keys) == keys \cap sensitive_fields # {}

has_appropriate_consent_language(t) ==
    ContainsAny(t, {"with your permission", "you can opt out", "data usage",
                    "privacy", "consent", "your choice", "control"})

mentions_security(t) ==
    ContainsAny(t, {"secure", "encrypted", "protected", "safe", "security",
                    "confidential", "privacy", "safeguarded"})

mentions_user_rights(t) ==
    ContainsAny(t, {"delete", "modify", "access", "export", "control", "rights",
                    "manage", "update", "remove"})

\* check_ethical_data_handling once its five findings are known
ethical_result(violations, tooMuch, noConsent, noSecurity, noRights) ==
    LET issues ==
            violations
            \o Opt(tooMuch, <<"More data collected than necessary for sleep coaching">>)
            \o Opt(noConsent, <<"Response lacks appropriate consent language">>)
            \o Opt(noSecurity, <<"No security assurance for sensitive data handling">>)
            \o Opt(noRights, <<"Response doesn't inform about user data rights">>)
        suggestions ==
            Opt(violations # <<>>, <<"Remove or anonymize sensitive information">>)
            \o Opt(tooMuch, <<"Only collect data essential for sleep improvement">>)
            \o Opt(noConsent, <<"Include information about data usage and user rights">>)
            \o Opt(noSecurity, <<"Mention data security measures when handling sensitive information">>)
            \o Opt(noRights, <<"Include information about user's right to access, modify, or delete data">>)
            \o Opt(issues = <<>>, <<"Ethical data handling requirements met">>)
        \* the assignments to risk_level, the last one made wins
        risk == IF noRights THEN "low"
                ELSE IF tooMuch \/ noConsent \/ noSecurity THEN "medium"
                ELSE IF violations # <<>> THEN "high"
                ELSE "low"
    IN  ResponsibleAICheck(issues = <<>>, risk, "ethical_data_handling",
            IF issues = <<>> THEN "Ethical data handling check passed"
            ELSE JoinWith(issues, "; "),
            suggestions)

\* check_ethical_data_handling on the lower-cased text
ethical_of(t, keys) ==
    ethical_result(
        PrivacyViolations(PrivacyMatches(t)),
        ~follows_data_minimization(keys),
        ~has_appropriate_consent_language(t),
        handles_sensitive_data(keys) /\ ~mentions_security(t),
        ~mentions_user_rights(t))

\* ResponsibleAIMiddleware.check_ethical_data_handling(text, user_data), the
\* user data (the agent context) given by the set of its keys
check_ethical_data_handling(text, keys) == ethical_of(Lower(text), keys)

-----------------------------------------------------------------------------
(* ResponsibleAIMiddleware.comprehensive_check and the behaviours of the   *)
(* global `responsible_ai` object.                                         *)

\* the order in which comprehensive_check inserts its results, and the key of
\* the wrapper's synthetic result
CheckOrder == <<"fairness", "transparency", "ethical_data_handling", "overall", "error">>

\* a faulty aggregation: the lowest of the risk levels
MinRisk(risks) ==
    CHOOSE r \in risks : \A q \in risks : RiskIndex(r) <= RiskIndex(q)

\* max(risk_levels, key=index)
MaxRisk(risks) ==
    CHOOSE r \in risks : \A q \in risks : RiskIndex(q) <= RiskIndex(r)

\* the aggregation of comprehensive_check over its three category results
aggregate(fairness_check, transparency_check, ethical_check) ==
    LET three == {fairness_check, transparency_check, ethical_check} IN
    [fairness              |-> fairness_check,
     transparency          |-> transparency_check,
     ethical_data_handling |-> ethical_check,
     overall |-> ResponsibleAICheck(
                     \A c \in three : c.passed,
                     MaxRisk({c.risk_level : c \in three}),
                     "comprehensive",
                     "Comprehensive responsible AI check completed",
                     <<>>)]

\* The engine of a request: the real middleware, the middleware with its
\* three category checks replaced by fixed verdicts (a forced risk), or a
\* middleware whose comprehensive_check raises.
EngineReal == [kind |-> "real", verdicts |-> <<>>]
EngineRaises == [kind |-> "raises", verdicts |-> <<>>]
EngineForced(f, t, e) == [kind |-> "forced", verdicts |-> <<f, t, e>>]

\* a category result with a given verdict
Verdict(category, passed, risk) ==
    ResponsibleAICheck(passed, risk, category,
        IF passed THEN category \o " check passed" ELSE category \o " issue",
        IF passed THEN <<>> ELSE <<"Fix " \o category, "Review " \o category>>)

\* ResponsibleAIMiddleware.comprehensive_check(text, action_type, user_context,
\* data_sources, decision_factors) under a non-raising engine e
comprehensive_check(e, text, action_type, keys, decision_factors) ==
    IF e.kind = "forced"
    THEN aggregate(e.verdicts[1], e.verdicts[2], e.verdicts[3])
    ELSE aggregate(check_fairness(text),
                   check_transparency(text, action_type, decision_factors),
                   check_ethical_data_handling(text, keys))

-----------------------------------------------------------------------------
(* Dictionaries.  An AgentContext, an AgentResponse and a `data` payload   *)
(* are functions from their keys to values; the empty context stands for  *)
(* both {} and None, which `ctx or {}` does not tell apart.                *)

EmptyDict == [k \in {} |-> None]

Has(d, k) == k \in DOMAIN d

\* d[k] = v
Put(d, k, v) == (k :> v) @@ d

\* no response (yet)
NoResponse == [agent |-> None]

-----------------------------------------------------------------------------
(* BaseAgent: the shared wrapper.                                          *)

Agents ==
    {"analytics", "coach", "information", "nutrition", "storyteller",
     "addiction", "prediction"}

\* a faulty action type: every agent, the Coordinator included, declares a
\* coaching plan
action_type_all_coaching(a) == "sleep_coaching_plan"

\* self.action_type as each agent's __init__ leaves it
action_type(a) ==
    CASE a = "coordinator" -> "request_routing"
      [] a = "analytics"   -> "data_analysis"
      [] a = "coach"       -> "sleep_coaching_plan"
      [] a = "nutrition"   -> "personalized_recommendation"
      [] a = "addiction"   -> "behavioral_change_suggestion"
      [] a = "storyteller" -> "storytelling"
      [] a = "prediction"  -> "predictive_analysis"
      [] OTHER             -> "general_response"

\* self.enable_responsible_ai: set by __init__, assigned nowhere else
enable_responsible_ai(a) == TRUE

\* the agents whose class defines handle itself without calling the wrapper
overrides_handle(a) == a = "information"

\* response.get("data", {}).get("decision_factors", {}), by factor names
decision_factors_of(resp) ==
    IF Has(resp, "data") /\ Has(resp.data, "decision_factors")
    THEN resp.data.decision_factors
    ELSE {}

\* the synthetic result of the wrapper's except branch
SystemError ==
    [error |-> ResponsibleAICheck(FALSE, "medium", "system_error",
                   "Responsible AI check failed: engine failure",
                   <<"Manual review recommended">>)]

\* a faulty error policy: the engine's failure is reported as a high risk
apply_checks_failing_high(a, resp, keys, e) ==
    IF e.kind = "raises"
    THEN [error |-> ResponsibleAICheck(FALSE, "high", "system_error",
                        "Responsible AI check failed: engine failure",
                        <<"Manual review recommended">>)]
    ELSE comprehensive_check(e, resp.text, action_type(a), keys,
                             decision_factors_of(resp))

\* BaseAgent._apply_responsible_ai_checks(response, original_message, ctx)
apply_responsible_ai_checks(a, resp, keys, e) ==
    IF e.kind = "raises" THEN SystemError
    ELSE comprehensive_check(e, resp.text, action_type(a), keys,
                             decision_factors_of(resp))

CRITICAL_PREFIX ==
    "I apologize, but I need to modify my response to ensure it meets our responsible AI guidelines. "

DISCLAIMER_HEADER == "**Important Disclaimers:**\n"

DISCLAIMER_BULLETS ==
    <<"- This is AI-generated educational guidance, not medical advice",
      "- Individual results may vary based on personal circumstances",
      "- Please consult healthcare providers for serious sleep disorders",
      "- Your privacy and data security are our top priorities",
      "- You have full control over your data and can modify or delete it anytime">>

\* the keys of a dict of check results, in insertion order
KeysInOrder(checks) == SelectSeq(CheckOrder, LAMBDA k : Has(checks, k))

RECURSIVE Flatten(_)
Flatten(seqs) == IF Len(seqs) = 0 THEN <<>> ELSE seqs[1] \o Flatten(Tail(seqs))

\* a faulty critical rewrite: the original text is discarded
critical_rewrite_discarding_text(resp, checks) ==
    Put(resp, "text", CRITICAL_PREFIX \o "\n\n" \o DISCLAIMER_HEADER
                          \o JoinWith(DISCLAIMER_BULLETS, "\n"))

\* BaseAgent._handle_critical_ai_issues(response, responsible_ai_results)
handle_critical_ai_issues(resp, checks) ==
    LET critical == SelectSeq(KeysInOrder(checks),
                        LAMBDA k : checks[k].risk_level = "critical")
        critical_issues == [i \in 1..Len(critical) |-> checks[critical[i]].message]
        suggestions == Flatten([i \in 1..Len(critical) |-> checks[critical[i]].suggestions])
        text == CRITICAL_PREFIX \o resp.text \o "\n\n" \o DISCLAIMER_HEADER
                    \o JoinWith(DISCLAIMER_BULLETS, "\n")
        data == IF Has(resp, "data") THEN resp.data ELSE EmptyDict
    IN  Put(Put(resp, "text", text), "data",
            Put(data, "responsible_ai_modification",
                [modified |-> TRUE, critical_issues |-> critical_issues,
                 modifications_made |-> suggestions]))

\* BaseAgent.handle after the checks have run: the verdict is merged into the
\* response, and a critical one rewrites it
merge_results(resp, checks) ==
    LET passed == IF Has(checks, "overall") THEN checks.overall.passed ELSE TRUE
        risk   == IF Has(checks, "overall") THEN checks.overall.risk_level ELSE "low"
        merged == Put(Put(Put(resp, "responsible_ai_checks", checks),
                          "responsible_ai_passed", passed),
                      "responsible_ai_risk_level", risk)
    IN  IF risk = "critical"
        THEN handle_critical_ai_issues(merged, checks)
        ELSE merged

\* the part of BaseAgent.handle that follows _handle_core: resp is the core
\* response, keys the keys of `ctx or {}`, e the engine of the request
handle(a, resp, keys, e) ==
    IF ~enable_responsible_ai(a) THEN resp
    ELSE merge_results(resp, apply_responsible_ai_checks(a, resp, keys, e))

\* what calling agent a's handle does with its core response: the wrapper,
\* unless the agent's class replaces handle
agent_handle(a, resp, keys, e) ==
    IF overrides_handle(a) THEN resp ELSE handle(a, resp, keys, e)

-----------------------------------------------------------------------------
(* Contexts and the core logic of the domain agents.  What a domain agent  *)
(* writes is content from outside the orchestration core: its core         *)
(* response is drawn from a few representative texts and payloads.         *)

User == [id |-> "u1"]
Nights == <<"night1", "night2", "night3", "night4">>
StaleAnalysis == [summary |-> [nights |-> 30], logs |-> <<"night0">>]

\* the contexts a caller supplies: none, the shape main.py builds, one that
\* carries logs and an analysis of an earlier request, and one without user
Contexts ==
    {EmptyDict,
     [user |-> User, display_name |-> " Sam ", history |-> <<"turn1">>],
     [user |-> User, logs |-> Nights, analysis |-> StaleAnalysis],
     [analysis |-> StaleAnalysis]}

\* truthiness of ctx.get(k)
CtxTruthy(c, k) ==
    /\ Has(c, k)
    /\ CASE k = "logs"         -> c[k] # <<>>
         [] k = "history"      -> c[k] # <<>>
         [] k = "display_name" -> Truthy(c[k])
         [] OTHER              -> TRUE

\* what fetch_recent_logs returns from the store
FetchedLogs == {<<>>, <<"night5", "night6">>}

LastThree(logs) == SubSeq(logs, IF Len(logs) > 3 THEN Len(logs) - 2 ELSE 1, Len(logs))

\* AnalyticsAgent._handle_core(message, ctx): which of its three returns is
\* taken, and whether the response carries data; the report and the summary
\* are reduced to their first lines
analyst_core(c, fetched) ==
    IF ~CtxTruthy(c, "user")
    THEN [agent |-> "analytics",
          text  |-> "Please sign in first so I can access your sleep data."]
    ELSE LET logs == IF CtxTruthy(c, "logs") THEN c.logs ELSE fetched IN
         IF logs = <<>>
         THEN [agent |-> "analytics",
               text  |-> "No sleep data found for the last 7 days. Start logging your sleep to get insights!"]
         ELSE [agent |-> "analytics",
               text  |-> "**7-Day Sleep Analysis**\n\n*Ask me about specific sleep challenges for personalized coaching!*",
               data  |-> [summary |-> [nights |-> Len(logs)], logs |-> LastThree(logs)]]

\* a payload a domain agent may answer with
CorePayload ==
    [tips |-> <<"wind down">>, decision_factors |-> {"caffeine", "screen time"}]

\* the core responses of domain agent a other than the analytics agent: one
\* plain text without data, one text the engine objects to with a payload
CoreResponses(a) ==
    {[agent |-> a, text |-> "Try a consistent bedtime."],
     [agent |-> a, text |-> "Just walk more, people like you always sleep late.",
      data  |-> CorePayload]}

-----------------------------------------------------------------------------
(* CoordinatorAgent._handle_core.                                          *)

\* WELCOME_MENU; "*" stands for the bullet character
WELCOME_MENU ==
    <<"* Log last night's sleep",
      "* Analyze my last 7 days",
      "* Give me a 7-day improvement plan",
      "* Predict tonight's sleep quality",
      "* Get optimal bedtime recommendation",
      "* What do reputable sources say about caffeine/screens/bedtime?",
      "* Get lifestyle guidance from my logs (caffeine/alcohol)",
      "* Tell me a bedtime story">>

\* the test of the greeting branch
is_greeting(msg) ==
    LET t == Strip(OrEmpty(msg)) IN
    ~Truthy(t) \/ Lower(t) \in {"hi", "hello", "hey"}

\* a faulty welcome: the salutation without the capability menu
welcome_without_menu(c) ==
    [agent |-> "coordinator", text |-> "Hi! I'm your sleep coordinator."]

\* the response of the greeting branch
welcome(c) ==
    LET dn == Strip(IF CtxTruthy(c, "display_name") THEN c.display_name ELSE "")
        name_part == IF Truthy(dn) THEN " " \o dn ELSE ""
    IN  [agent |-> "coordinator",
         text  |-> "Hi" \o name_part \o "! I'm your sleep coordinator.\n\n"
                   \o "Here are some things you can try:\n"
                   \o JoinWith(WELCOME_MENU, "\n") \o "\n\n"
                   \o "Or just ask in your own words - I'll route it to the right agent."]

\* a faulty chain test: the coaching label is dispatched on its own
chained_only_analytics(label) == label = "analytics"

\* `if intent in ("analytics", "coach")`: the labels that need the analysis
chained(label) == label \in {"analytics", "coach"}

\* a faulty early return: the analytics label goes on to the coaching agent
returns_analysis_never(label) == FALSE

\* `if intent == "analytics": return analysis_result`
returns_analysis(label) == label = "analytics"

\* a faulty splice: the fetched nights are stored in the context as well
splice_analysis_and_logs(c, analysis_result) ==
    IF Has(analysis_result, "data")
    THEN Put(Put(c, "analysis", analysis_result.data), "logs", analysis_result.data.logs)
    ELSE c

\* `if "data" in analysis_result: ctx["analysis"] = analysis_result["data"]`
splice_analysis(c, analysis_result) ==
    IF Has(analysis_result, "data")
    THEN Put(c, "analysis", analysis_result.data)
    ELSE c

\* the agent a label is dispatched to when it is not a chained label
single_target(label) ==
    IF label \in {"information", "nutrition", "storyteller", "addiction", "prediction"}
    THEN label
    ELSE "coach"

\* no label yet
NoIntent == "<no intent>"

\* the messages of the requests
RequestMessages ==
    {None, " ", "Hello ", "Analyze my week", "plan", "coffee", "explain coffee",
     "I quit coffee",
     "I've been drinking too much coffee every day and can't sleep",
     "tonight", "tell me a story"}

\* the engines of the requests
Critical(category) == Verdict(category, FALSE, "critical")
Clean(category) == Verdict(category, TRUE, "low")

Engines ==
    {EngineReal,
     EngineRaises,
     EngineForced(Clean("fairness"), Clean("transparency"), Clean("ethical_data_handling")),
     EngineForced(Clean("fairness"), Critical("transparency"), Clean("ethical_data_handling")),
     EngineForced(Critical("fairness"), Verdict("transparency", FALSE, "high"),
                  Critical("ethical_data_handling"))}

-----------------------------------------------------------------------------
(* The request state machine: one Coordinator.handle call at a time on the *)
(* shared CoordinatorAgent, each await of a domain agent a call step and a  *)
(* return step.                                                            *)

ClIdle == [stage |-> "idle", msg |-> None, llm |-> LLMUnavailable,
           dependency |-> FALSE, primary |-> None, fallback |-> None,
           label |-> None]

EngIdle == [stage |-> "idle", verdicts |-> <<>>, results |-> EmptyDict]

AdIdle == [stage |-> "idle"]

ChkIdle == [stage |-> "idle"]

StIdle == [stage |-> "idle"]

RlIdle == [stage |-> "idle"]

\* no classification yet, or the last one had the provider at hand
NothingSeen == [msg |-> None, label |-> NoIntent, again |-> FALSE]

\* the context object the caller holds: _handle_core works on the caller's
\* dict unless that is empty (or None), and then on a dict of its own
CallerCtx == IF ctx0 = EmptyDict THEN ctx0 ELSE ctx

\* the record of a domain agent's invocation
Invocation(a, c) ==
    [agent |-> a, ctx |-> c, status |-> "running",
     core |-> NoResponse, result |-> NoResponse]

\* the record of a comprehensive_check call made by the wrapper of agent a
EngineCall(a, resp) ==
    [agent |-> a, action_type |-> action_type(a), text |-> resp.text,
     raised |-> engine.kind = "raises"]

\* the engine log after agent a's handle has run on the core response resp
Logged(a, resp) ==
    IF overrides_handle(a) \/ ~enable_responsible_ai(a) THEN engineLog
    ELSE Append(engineLog, EngineCall(a, resp))

\* the last invocation, completed
Returned(core, result) ==
    [calls EXCEPT ![Len(calls)] =
        [@ EXCEPT !.status = "returned", !.core = core, !.result = result]]

InitRequest ==
    /\ pc = "idle"
    /\ message = None
    /\ ctx = EmptyDict
    /\ ctx0 = EmptyDict
    /\ engine = EngineReal
    /\ intent = NoIntent
    /\ inflight = <<>>
    /\ calls = <<>>
    /\ engineLog = <<>>
    /\ coreResp = NoResponse
    /\ response = NoResponse
    /\ served = 0
    /\ llmCalls = 0
    /\ fallbackSeen = NothingSeen

Init ==
    /\ InitRequest
    /\ cl = ClIdle /\ eng = EngIdle /\ ad = AdIdle /\ chk = ChkIdle /\ st = StIdle /\ rl = RlIdle

\* a caller calls coordinator.handle(m, c) while the engine behaves as e
Request(m, c, e) ==
    /\ pc = "idle"
    /\ served < MaxRequests
    /\ pc' = "core"
    /\ message' = m
    /\ ctx' = c
    /\ ctx0' = c
    /\ engine' = e
    /\ UNCHANGED <<intent, inflight, calls, engineLog, coreResp, response,
                   served, llmCalls, fallbackSeen, cl, eng, ad, chk, st, rl>>

\* _handle_core, greeting branch: the welcome template
Greeting ==
    /\ pc = "core"
    /\ is_greeting(message)
    /\ coreResp' = welcome(ctx)
    /\ pc' = "wrap"
    /\ UNCHANGED <<message, ctx, ctx0, engine, intent, inflight, calls,
                   engineLog, response, served, llmCalls, fallbackSeen, cl, eng, ad, chk, st, rl>>

\* a faulty short-circuit: the dependency message is labelled and dispatched
\* like any classified message
ShortCircuitAsLabel ==
    /\ pc = "core"
    /\ ~is_greeting(message)
    /\ detect_addiction_context(message)
    /\ intent' = "addiction"
    /\ pc' = "dispatch"
    /\ UNCHANGED <<message, ctx, ctx0, engine, inflight, calls, engineLog,
                   coreResp, response, served, llmCalls, fallbackSeen, cl, eng,
                   ad, chk, st, rl>>

\* _handle_core, the dependency short-circuit: addiction.handle is awaited
ShortCircuit ==
    /\ pc = "core"
    /\ ~is_greeting(message)
    /\ detect_addiction_context(message)
    /\ inflight' = <<"addiction">>
    /\ calls' = Append(calls, Invocation("addiction", ctx))
    /\ pc' = "single"
    /\ UNCHANGED <<message, ctx, ctx0, engine, intent, engineLog, coreResp,
                   response, served, llmCalls, fallbackSeen, cl, eng, ad, chk, st, rl>>

\* _handle_core, classification: the primary phase with the provider
\* behaving as llm, then the fallback if it decided nothing
Classify(llm) ==
    /\ pc = "core"
    /\ ~is_greeting(message)
    /\ ~detect_addiction_context(message)
    /\ intent' = classify(message, llm)
    /\ llmCalls' = IF llm.kind = "unavailable" THEN llmCalls ELSE llmCalls + 1
    /\ fallbackSeen' = IF llm.kind = "unavailable"
                       THEN [msg |-> message, label |-> intent',
                             again |-> fallbackSeen.msg = message]
                       ELSE NothingSeen
    /\ pc' = "dispatch"
    /\ UNCHANGED <<message, ctx, ctx0, engine, inflight, calls, engineLog,
                   coreResp, response, served, cl, eng, ad, chk, st, rl>>

\* _handle_core, chained labels: analyst.handle is awaited first
DispatchAnalyst ==
    /\ pc = "dispatch"
    /\ chained(intent)
    /\ inflight' = <<"analytics">>
    /\ calls' = Append(calls, Invocation("analytics", ctx))
    /\ pc' = "analyst"
    /\ UNCHANGED <<message, ctx, ctx0, engine, intent, engineLog, coreResp,
                   response, served, llmCalls, fallbackSeen, cl, eng, ad, chk, st, rl>>

\* analyst.handle returns: the analytics label returns its response, the
\* coaching label splices its data into the context
AnalystReturns(fetched) ==
    /\ pc = "analyst"
    /\ LET core == analyst_core(ctx, fetched)
       IN  /\ calls' = Returned(core, agent_handle("analytics", core, DOMAIN ctx, engine))
           /\ engineLog' = Logged("analytics", core)
    /\ inflight' = <<>>
    /\ LET analysis_result == calls'[Len(calls')].result
       IN  IF returns_analysis(intent)
           THEN /\ coreResp' = analysis_result
                /\ pc' = "wrap"
                /\ ctx' = ctx
           ELSE /\ ctx' = splice_analysis(ctx, analysis_result)
                /\ pc' = "chain"
                /\ coreResp' = coreResp
    /\ UNCHANGED <<message, ctx0, engine, intent, response, served, llmCalls,
                   fallbackSeen, cl, eng, ad, chk, st, rl>>

\* _handle_core, coaching label: coach.handle is awaited with the context
DispatchCoach ==
    /\ pc = "chain"
    /\ inflight' = <<"coach">>
    /\ calls' = Append(calls, Invocation("coach", ctx))
    /\ pc' = "single"
    /\ UNCHANGED <<message, ctx, ctx0, engine, intent, engineLog, coreResp,
                   response, served, llmCalls, fallbackSeen, cl, eng, ad, chk, st, rl>>

\* _handle_core, any other label: the handle of its agent is awaited
DispatchSingle ==
    /\ pc = "dispatch"
    /\ ~chained(intent)
    /\ inflight' = <<single_target(intent)>>
    /\ calls' = Append(calls, Invocation(single_target(intent), ctx))
    /\ pc' = "single"
    /\ UNCHANGED <<message, ctx, ctx0, engine, intent, engineLog, coreResp,
                   response, served, llmCalls, fallbackSeen, cl, eng, ad, chk, st, rl>>

\* the awaited handle returns and _handle_core returns its response
AgentReturns(core) ==
    /\ pc = "single"
    /\ core.agent = inflight[1]
    /\ calls' = Returned(core, agent_handle(inflight[1], core, DOMAIN ctx, engine))
    /\ engineLog' = Logged(inflight[1], core)
    /\ coreResp' = calls'[Len(calls')].result
    /\ inflight' = <<>>
    /\ pc' = "wrap"
    /\ UNCHANGED <<message, ctx, ctx0, engine, intent, response, served,
                   llmCalls, fallbackSeen, cl, eng, ad, chk, st, rl>>

\* the awaited handle raises: nothing in _handle_core or handle catches it
AgentRaises ==
    /\ pc \in {"analyst", "single"}
    /\ calls' = [calls EXCEPT ![Len(calls)].status = "raised"]
    /\ inflight' = <<>>
    /\ pc' = "raised"
    /\ UNCHANGED <<message, ctx, ctx0, engine, intent, engineLog, coreResp,
                   response, served, llmCalls, fallbackSeen, cl, eng, ad, chk, st, rl>>

\* Coordinator.handle after _handle_core: the wrapper on the core response,
\* with the context object of the caller
Wrap ==
    /\ pc = "wrap"
    /\ response' = handle("coordinator", coreResp, DOMAIN CallerCtx, engine)
    /\ engineLog' = Logged("coordinator", coreResp)
    /\ pc' = "done"
    /\ UNCHANGED <<message, ctx, ctx0, engine, intent, inflight, calls,
                   coreResp, served, llmCalls, fallbackSeen, cl, eng, ad, chk, st, rl>>

\* the exception leaves Coordinator.handle, _coordinator_reply and chat_stream,
\* none of which has a handler around the call: the request fails without a
\* response
Propagate ==
    /\ pc = "raised"
    /\ pc' = "failed"
    /\ UNCHANGED <<message, ctx, ctx0, engine, intent, inflight, calls,
                   engineLog, coreResp, response, served, llmCalls,
                   fallbackSeen, cl, eng, ad, chk, st, rl>>

\* the request is over; the next one finds the coordinator as constructed
NextRequest ==
    /\ pc \in {"done", "failed"}
    /\ pc' = "idle"
    /\ served' = served + 1
    /\ message' = None
    /\ ctx' = EmptyDict
    /\ ctx0' = EmptyDict
    /\ engine' = EngineReal
    /\ intent' = NoIntent
    /\ inflight' = <<>>
    /\ calls' = <<>>
    /\ engineLog' = <<>>
    /\ coreResp' = NoResponse
    /\ response' = NoResponse
    /\ llmCalls' = 0
    /\ UNCHANGED <<fallbackSeen, cl, eng, ad, chk, st, rl>>

Next ==
    \/ \E m \in RequestMessages, c \in Contexts, e \in Engines : Request(m, c, e)
    \/ Greeting
    \/ ShortCircuit
    \/ \E llm \in RequestLLMs : Classify(llm)
    \/ DispatchAnalyst
    \/ \E fetched \in FetchedLogs : AnalystReturns(fetched)
    \/ DispatchCoach
    \/ DispatchSingle
    \/ \E a \in Agents : \E core \in CoreResponses(a) : AgentReturns(core)
    \/ AgentRaises
    \/ Wrap
    \/ Propagate
    \/ NextRequest

Spec == Init /\ [][Next]_vars

-----------------------------------------------------------------------------
(* The classifier on its own: every drawn message under every behaviour of *)
(* the provider.                                                           *)

InitClassify ==
    /\ InitRequest
    /\ eng = EngIdle
    /\ ad = AdIdle
    /\ chk = ChkIdle
    /\ st = StIdle
    /\ rl = RlIdle
    /\ cl \in {[ClIdle EXCEPT !.stage = "input", !.msg = m, !.llm = llm] :
                  m \in Messages, llm \in LLMOutcomes}

\* one classification: the dependency predicate, the primary phase and the
\* label of `_intent_llm(message) or _intent_keyword(message)`
RunClassifier ==
    /\ cl.stage = "input"
    /\ cl' = [cl EXCEPT !.stage = "done",
                        !.dependency = detect_addiction_context(cl.msg),
                        !.primary = intent_llm(cl.msg, cl.llm),
                        !.fallback = fallback_if_consulted(cl.msg, cl.llm),
                        !.label = classify(cl.msg, cl.llm)]
    /\ UNCHANGED <<reqVars, eng, ad, chk, st, rl>>

NextClassify == RunClassifier

SpecClassify == InitClassify /\ [][NextClassify]_vars

-----------------------------------------------------------------------------
(* The engine's aggregation on its own: every combination of the three     *)
(* category verdicts.                                                      *)

Verdicts(category) ==
    {Verdict(category, passed, RiskLevels[i]) :
        passed \in BOOLEAN, i \in 1..Len(RiskLevels)}

InitEngine ==
    /\ InitRequest
    /\ cl = ClIdle
    /\ ad = AdIdle
    /\ chk = ChkIdle
    /\ st = StIdle
    /\ rl = RlIdle
    /\ eng \in {[EngIdle EXCEPT !.stage = "input", !.verdicts = <<f, t, e>>] :
                   f \in Verdicts("fairness"), t \in Verdicts("transparency"),
                   e \in Verdicts("ethical_data_handling")}

\* one comprehensive_check whose three category checks give eng.verdicts
RunEngine ==
    /\ eng.stage = "input"
    /\ eng' = [eng EXCEPT !.stage = "done",
                          !.results = comprehensive_check(
                              EngineForced(eng.verdicts[1], eng.verdicts[2],
                                           eng.verdicts[3]),
                              "", "general_response", {}, {})]
    /\ UNCHANGED <<reqVars, cl, ad, chk, st, rl>>

NextEngine == RunEngine

SpecEngine == InitEngine /\ [][NextEngine]_vars

-----------------------------------------------------------------------------
(* The language-model adapter llm_gemini.generate_gemini_text, one model   *)
(* of the list at a time.                                                  *)

\* DEFAULT_PREFERRED_MODEL when GEMINI_PREFERRED_MODEL is not set
DEFAULT_PREFERRED_MODEL == "gemini-2.5-flash"

\* `defaults` of _fallback_model_list
default_fallbacks ==
    <<"gemini-2.0-flash", "gemini-2.0-flash-exp", "gemini-1.5-flash",
      "gemini-1.5-flash-8b">>

\* str.split(c) for a one-character separator c
RECURSIVE SplitOn(_, _)
SplitOn(s, c) ==
    IF ~Contains(s, c) THEN <<s>>
    ELSE LET i == CHOOSE j \in 1..Len(s) :
                      /\ SubSeq(s, j, j) = c
                      /\ \A k \in 1..(j - 1) : SubSeq(s, k, k) # c
         IN  <<SubSeq(s, 1, i - 1)>> \o SplitOn(SubSeq(s, i + 1, Len(s)), c)

\* [m.strip() for m in items if m.strip()]
RECURSIVE StrippedNonEmpty(_)
StrippedNonEmpty(items) ==
    IF Len(items) = 0 THEN <<>>
    ELSE Opt(Strip(items[1]) # "", <<Strip(items[1])>>)
             \o StrippedNonEmpty(Tail(items))

\* the loop of _fallback_model_list: `ordered` without empty names and
\* without repetitions, the first occurrence kept, appended to `final`
RECURSIVE deduplicate(_, _)
deduplicate(ordered, final) ==
    IF Len(ordered) = 0 THEN final
    ELSE deduplicate(Tail(ordered),
             IF ordered[1] # "" /\ \A i \in 1..Len(final) : final[i] # ordered[1]
             THEN Append(final, ordered[1])
             ELSE final)

\* a faulty list: the defaults before the preferred model
fallback_model_list_defaults_first(preferred, env_val) ==
    default_fallbacks \o <<preferred>>

\* _fallback_model_list(preferred, env_val), env_val None when
\* GEMINI_FALLBACK_MODELS is not set
fallback_model_list(preferred, env_val) ==
    LET env_models == IF Truthy(env_val)
                      THEN StrippedNonEmpty(SplitOn(env_val, ","))
                      ELSE <<>>
    IN  deduplicate(<<preferred>> \o env_models \o default_fallbacks, <<>>)

\* `to_try` of generate_gemini_text(prompt, model_name, fallback_models); no
\* caller passes fallback_models, which is <<>> for None
models_to_try(model_name, fallback_models, env_val) ==
    IF Len(fallback_models) = 0
    THEN fallback_model_list(model_name, env_val)
    ELSE <<model_name>> \o SelectSeq(fallback_models, LAMBDA m : m # "")

\* the model names the drawn calls can reach
ModelNames ==
    {"gemini-2.5-flash", "gemini-2.0-flash", "gemini-2.0-flash-exp",
     "gemini-1.5-flash", "gemini-1.5-flash-8b", "gemini-pro"}

\* what a model does when asked: generate_content_async raises, the response
\* has no usable text, or it has text
ModelOutcomes == {"raises", "empty", "text"}

\* getattr(resp, "text", None) of model m: the empty responses are None, ""
\* or blank, by model
resp_text(m, outcome) ==
    IF outcome = "text" THEN " reply of " \o m \o "\n"
    ELSE IF m \in {"gemini-2.5-flash", "gemini-pro"} THEN None
    ELSE IF m \in {"gemini-2.0-flash", "gemini-1.5-flash"} THEN ""
    ELSE " \n"

\* the arguments callers give: the default model, or the model the addiction
\* and storyteller agents name
CallerModelNames == {DEFAULT_PREFERRED_MODEL, "gemini-2.0-flash-exp"}

\* values of GEMINI_FALLBACK_MODELS
EnvFallbacks == {None, "", "gemini-pro, gemini-2.0-flash ,,gemini-pro"}

InitAdapter ==
    /\ InitRequest
    /\ cl = ClIdle
    /\ eng = EngIdle
    /\ chk = ChkIdle
    /\ st = StIdle
    /\ rl = RlIdle
    /\ ad \in {[stage |-> "input", credentials |-> k, model_name |-> m,
                 env_val |-> e, provider |-> p, to_try |-> <<>>,
                 tried |-> <<>>, result |-> None] :
                   k \in BOOLEAN, m \in CallerModelNames, e \in EnvFallbacks,
                   p \in [ModelNames -> ModelOutcomes]}

\* generate_gemini_text up to its loop: nothing without credentials, else
\* the list of models to attempt
AdapterCall ==
    /\ ad.stage = "input"
    /\ ad' = IF ~ad.credentials
             THEN [ad EXCEPT !.stage = "done", !.result = None]
             ELSE [ad EXCEPT !.stage = "trying",
                             !.to_try = models_to_try(ad.model_name, <<>>, ad.env_val)]
    /\ UNCHANGED <<reqVars, cl, eng, chk, st, rl>>

\* one iteration of the loop: the next model is asked; its text is returned
\* if it is not blank, else the loop goes on
AdapterTry ==
    /\ ad.stage = "trying"
    /\ Len(ad.tried) < Len(ad.to_try)
    /\ LET m    == ad.to_try[Len(ad.tried) + 1]
           text == resp_text(m, ad.provider[m])
       IN  ad' = IF ad.provider[m] # "raises" /\ Truthy(text) /\ Strip(text) # ""
                 THEN [ad EXCEPT !.stage = "done", !.tried = Append(@, m),
                                 !.result = text]
                 ELSE [ad EXCEPT !.tried = Append(@, m)]
    /\ UNCHANGED <<reqVars, cl, eng, chk, st, rl>>

\* the loop is over without a text: generate_gemini_text returns None
AdapterGivesUp ==
    /\ ad.stage = "trying"
    /\ Len(ad.tried) = Len(ad.to_try)
    /\ ad' = [ad EXCEPT !.stage = "done", !.result = None]
    /\ UNCHANGED <<reqVars, cl, eng, chk, st, rl>>

NextAdapter == AdapterCall \/ AdapterTry \/ AdapterGivesUp

SpecAdapter == InitAdapter /\ [][NextAdapter]_vars

-----------------------------------------------------------------------------
(* The category checks on their own: texts put together from sentences     *)
(* that each carry one thing the checks look for.                          *)

\* a leaked identifier, consent and security language, user-rights language,
\* an explanatory connective, a data-source reference, a limitations
\* acknowledgment, a self-identification, a decision factor
Sentences ==
    <<"Contact sam@example.com.",
      "Your privacy is protected.",
      "You can delete your records.",
      "This is because of late coffee.",
      "Your sleep logs show it.",
      "This is not medical advice.",
      "Morpheus suggests this.",
      "Bedtime matters.">>

\* the chosen sentences from the i-th on, in order
RECURSIVE Chosen(_, _)
Chosen(choice, i) ==
    IF i > Len(Sentences) THEN <<>>
    ELSE Opt(i \in choice, <<Sentences[i]>>) \o Chosen(choice, i + 1)

\* the texts above, and texts put together from four sentences that each
\* carry one finding of the fairness check: an inaccessible word, an
\* inclusive word too few, an age-bias pattern, a stereotyping pattern
CheckedTexts ==
    LET fair == <<"It is easy.", "You might try it.",
                  "At your age rest helps.", "Given your age, rest.">>
    IN  {JoinWith(Chosen(choice, 1), " ") : choice \in SUBSET (1..Len(Sentences))}
        \cup {JoinWith(SelectSeq(fair, LAMBDA x : x \in pick), " ") :
                  pick \in SUBSET {fair[i] : i \in 1..Len(fair)}}

\* an action type of transparency_required_actions and one outside it
CheckedActionTypes == {"sleep_coaching_plan", "general_response"}

\* the names of the decision factors of a response's data
CheckedFactors == {{}, {"Bedtime"}, {"Bedtime", "Stress", "Noise"}}

\* the keys of the user data
CheckedUserData ==
    {{}, {"user", "logs"},
     {"user", "medications", "location", "mental_health", "personal_notes"}}

InitChecks ==
    /\ InitRequest
    /\ cl = ClIdle
    /\ eng = EngIdle
    /\ ad = AdIdle
    /\ st = StIdle
    /\ rl = RlIdle
    /\ chk \in {[stage |-> "input", text |-> t, action_type |-> a,
                  decision_factors |-> f, user_data |-> u,
                  fairness |-> NoResponse, transparency |-> NoResponse,
                  ethical |-> NoResponse, returned |-> NoResponse] :
                    t \in CheckedTexts, a \in CheckedActionTypes,
                    f \in CheckedFactors, u \in CheckedUserData}

\* the harness after the wrapper has run on its text: the three category
\* results among the engine's results, and the response handle returns
Checked(c, results) ==
    [c EXCEPT
        !.stage = "done",
        !.fairness = results.fairness,
        !.transparency = results.transparency,
        !.ethical = results.ethical_data_handling,
        !.returned = merge_results(
                         [agent |-> "agent", text |-> c.text,
                          data |-> [decision_factors |-> c.decision_factors]],
                         results)]

\* one handle of an agent of the given action type whose core response has
\* the given text and decision factors, under the real engine
RunChecks ==
    /\ chk.stage = "input"
    /\ chk' = Checked(chk, comprehensive_check(EngineReal, chk.text, chk.action_type,
                                               chk.user_data, chk.decision_factors))
    /\ UNCHANGED <<reqVars, cl, eng, ad, st, rl>>

NextChecks == RunChecks

SpecChecks == InitChecks /\ [][NextChecks]_vars

-----------------------------------------------------------------------------
(* The shared StoryTellerAgent: the one instance the module-level          *)
(* coordinator constructs serves every story request.  A request is        *)
(* suspended while it awaits the provider; _select_fallback_story has no   *)
(* await and runs in one step.                                             *)

\* story requests dispatched to the agent, in all
MaxStories == 6

\* story requests that can be in progress together
StoryTasks == 1..2

\* FALLBACK_STORIES, each story reduced to its title
FALLBACK_STORIES == <<"lake story", "forest story", "cottage story">>

\* self.story_history[-2:]
LastTwo(history) ==
    SubSeq(history, IF Len(history) > 2 THEN Len(history) - 1 ELSE 1, Len(history))

\* the indices of `available_stories` before the reset
available_stories(history) ==
    {i \in 0..(Len(FALLBACK_STORIES) - 1) :
        \A j \in 1..Len(LastTwo(history)) : LastTwo(history)[j] # i}

\* the indices random.choice draws from in _select_fallback_story
offered_stories(history) ==
    IF available_stories(history) = {}
    THEN 0..(Len(FALLBACK_STORIES) - 1)
    ELSE available_stories(history)

\* self.story_history after _select_fallback_story has chosen the story i
history_after(history, i) ==
    LET h == Append(IF available_stories(history) = {} THEN <<>> ELSE history, i)
    IN  IF Len(h) > 5 THEN SubSeq(h, Len(h) - 2, Len(h)) ELSE h

\* what the provider does for a story prompt: gemini_ready() is false,
\* generate_gemini_text raises, its text fails the validation, or it is a story
StoryProviders == {"unavailable", "raises", "invalid", "story"}

StoryTaskIdle ==
    [pc |-> "idle", provider |-> None, offered |-> {}, text |-> None,
     generation_method |-> None]

InitStory ==
    /\ InitRequest
    /\ cl = ClIdle
    /\ eng = EngIdle
    /\ ad = AdIdle
    /\ chk = ChkIdle
    /\ rl = RlIdle
    /\ st = [stage |-> "serving", story_history |-> <<>>, started |-> 0,
             tasks |-> [t \in StoryTasks |-> StoryTaskIdle]]

\* the agent after task t has answered with the fallback story i
FallbackSelected(t, i) ==
    [st EXCEPT !.story_history = history_after(st.story_history, i),
               !.tasks[t].pc = "done",
               !.tasks[t].offered = offered_stories(st.story_history),
               !.tasks[t].text = FALLBACK_STORIES[i + 1],
               !.tasks[t].generation_method = "fallback"]

\* _handle_core of the agent up to its await: without credentials the
\* fallback story is selected at once
StoryBegin(t, provider) ==
    /\ st.stage = "serving"
    /\ st.tasks[t].pc = "idle"
    /\ st.started < MaxStories
    /\ IF provider = "unavailable"
       THEN \E i \in offered_stories(st.story_history) :
                st' = [FallbackSelected(t, i) EXCEPT
                          !.started = @ + 1, !.tasks[t].provider = provider]
       ELSE st' = [st EXCEPT !.started = @ + 1,
                             !.tasks[t].pc = "generating",
                             !.tasks[t].provider = provider]
    /\ UNCHANGED <<reqVars, cl, eng, ad, chk, rl>>

\* the awaited provider call is over: a valid story is the answer, else the
\* fallback story is selected
StoryResume(t) ==
    /\ st.stage = "serving"
    /\ st.tasks[t].pc = "generating"
    /\ IF st.tasks[t].provider = "story"
       THEN st' = [st EXCEPT !.tasks[t].pc = "done",
                             !.tasks[t].text = "a story of the provider",
                             !.tasks[t].generation_method = "ai_generated"]
       ELSE \E i \in offered_stories(st.story_history) : st' = FallbackSelected(t, i)
    /\ UNCHANGED <<reqVars, cl, eng, ad, chk, rl>>

\* the response of task t has been returned
StoryReturned(t) ==
    /\ st.stage = "serving"
    /\ st.tasks[t].pc = "done"
    /\ st' = [st EXCEPT !.tasks[t] = StoryTaskIdle]
    /\ UNCHANGED <<reqVars, cl, eng, ad, chk, rl>>

NextStory ==
    \/ \E t \in StoryTasks, provider \in StoryProviders : StoryBegin(t, provider)
    \/ \E t \in StoryTasks : StoryResume(t)
    \/ \E t \in StoryTasks : StoryReturned(t)

SpecStory == InitStory /\ [][NextStory]_vars

-----------------------------------------------------------------------------
(* The global SecurityMiddleware: validate_request_security with its       *)
(* in-memory RateLimiter, under a clock of seconds.  The log of the        *)
(* SecurityMonitor is not modelled.                                        *)

\* seconds the clock advances by in one step, and the last second it reaches
TickSeconds == 1800
MaxClock == 3600

\* self.rate_limits, in the insertion order of the dict
rate_limits ==
    <<<<"/chat", 30>>, <<"/agents/storyteller", 20>>, <<"/chat/stream", 15>>>>

\* SecurityMiddleware._get_rate_limit_for_path(path): the limit of the first
\* endpoint that is a substring of the path
get_rate_limit_for_path(path) ==
    LET hits == SelectSeq(rate_limits, LAMBDA item : Contains(path, item[1]))
    IN  IF hits = <<>> THEN 60 ELSE hits[1][2]

\* RateLimiter.cleanup_interval
cleanup_interval == 300

\* [ts for ts in stamps if ts > cutoff]
Later(stamps, cutoff) == SelectSeq(stamps, LAMBDA ts : ts > cutoff)

\* whether _cleanup_old_requests does its work at time now
cleanup_due(last_cleanup, now) == ~(now - last_cleanup < cleanup_interval)

\* self.requests after RateLimiter._cleanup_old_requests at time now
cleanup_old_requests(requests, last_cleanup, now) ==
    IF ~cleanup_due(last_cleanup, now) THEN requests
    ELSE LET kept == [ip \in DOMAIN requests |-> Later(requests[ip], now - 3600)]
         IN  [ip \in {i \in DOMAIN kept : kept[i] # <<>>} |-> kept[ip]]

\* RateLimiter.is_rate_limited(ip, requests_per_hour) at time now: the
\* limiter after the call, and the value returned
is_rate_limited(limiter, ip, requests_per_hour, now) ==
    LET cleaned == cleanup_old_requests(limiter.requests, limiter.last_cleanup, now)
        stamps  == IF ip \in DOMAIN cleaned THEN cleaned[ip] ELSE <<>>
        limited == Len(Later(stamps, now - 3600)) >= requests_per_hour
    IN  [requests     |-> (ip :> (IF limited THEN stamps ELSE Append(stamps, now)))
                              @@ cleaned,
         last_cleanup |-> IF cleanup_due(limiter.last_cleanup, now)
                          THEN now ELSE limiter.last_cleanup,
         limited      |-> limited]

\* the client address, and the paths of the requests
ClientIPs == {"203.0.113.7"}
RequestPaths == {"/chat/stream", "/chat", "/agents/storyteller", "/profile/u1"}

\* no request validated yet
NoCall == [ip |-> None, path |-> None, at |-> 0, before |-> <<>>, status |-> 0]

InitLimiter ==
    /\ InitRequest
    /\ cl = ClIdle
    /\ eng = EngIdle
    /\ ad = AdIdle
    /\ chk = ChkIdle
    /\ st = StIdle
    /\ rl = [stage |-> "serving", now |-> 0,
             limiter |-> [requests |-> EmptyDict, last_cleanup |-> 0],
             only_stream |-> TRUE, last |-> NoCall]

\* SecurityMiddleware.validate_request_security(request, content) for a
\* request of the address ip to the path, its content suspicious or not:
\* HTTP 429 from the limiter, else 400 for a suspicious content, else allowed
ValidateRequest(ip, path, suspicious) ==
    /\ rl.stage = "serving"
    /\ LET answer == is_rate_limited(rl.limiter, ip, get_rate_limit_for_path(path), rl.now)
       IN  rl' = [rl EXCEPT
                     !.limiter = [requests |-> answer.requests,
                                  last_cleanup |-> answer.last_cleanup],
                     !.only_stream = @ /\ path = "/chat/stream",
                     !.last = [ip |-> ip, path |-> path, at |-> rl.now,
                               before |-> IF ip \in DOMAIN rl.limiter.requests
                                          THEN rl.limiter.requests[ip] ELSE <<>>,
                               status |-> IF answer.limited THEN 429
                                          ELSE IF suspicious THEN 400
                                          ELSE 200]]
    /\ UNCHANGED <<reqVars, cl, eng, ad, chk, st>>

\* time passes
ClockAdvances ==
    /\ rl.stage = "serving"
    /\ rl.now + TickSeconds <= MaxClock
    /\ rl' = [rl EXCEPT !.now = @ + TickSeconds]
    /\ UNCHANGED <<reqVars, cl, eng, ad, chk, st>>

NextLimiter ==
    \/ \E ip \in ClientIPs, path \in RequestPaths, suspicious \in BOOLEAN :
           ValidateRequest(ip, path, suspicious)
    \/ ClockAdvances

SpecLimiter == InitLimiter /\ [][NextLimiter]_vars

-----------------------------------------------------------------------------
(* Properties of the shared wrapper and of the engine.                     *)

\* the invocations of domain agents that have returned
ReturnedCalls == {i \in 1..Len(calls) : calls[i].status = "returned"}

\* the wrapper's three fields
HasVerdict(r) ==
    /\ Has(r, "responsible_ai_checks")
    /\ Has(r, "responsible_ai_passed")
    /\ Has(r, "responsible_ai_risk_level")

\* the category results of a dict of check results
Categories(checks) == DOMAIN checks \ {"overall"}

\* the response carries the three fields, passed is the AND of the category
\* results and the risk level is the highest of theirs
VerdictOfCategories(r) ==
    /\ HasVerdict(r)
    /\ LET checks == r.responsible_ai_checks
           risk   == r.responsible_ai_risk_level
       IN  /\ r.responsible_ai_passed = (\A k \in Categories(checks) : checks[k].passed)
           /\ \A k \in Categories(checks) :
                  RiskIndex(checks[k].risk_level) <= RiskIndex(risk)
           /\ \E k \in Categories(checks) : checks[k].risk_level = risk

\* C1: every response a handle returns, that of the Coordinator and those of
\* the domain agents, also when the engine failed, carries
\* responsible_ai_checks, responsible_ai_passed and responsible_ai_risk_level,
\* with passed the AND of the category results and the risk level their MAX.
C1_VerdictOfEveryResponse ==
    /\ pc = "done" => VerdictOfCategories(response)
    /\ \A i \in ReturnedCalls : VerdictOfCategories(calls[i].result)

\* the engine was called on agent a's response and raised
EngineRaisedFor(a) ==
    \E j \in 1..Len(engineLog) : engineLog[j].agent = a /\ engineLog[j].raised

\* r is the core response with one synthetic system_error result added
RecoveredFrom(core, r) ==
    /\ r.agent = core.agent
    /\ r.text = core.text
    /\ Has(r, "data") = Has(core, "data")
    /\ Has(core, "data") => r.data = core.data
    /\ HasVerdict(r)
    /\ Cardinality(DOMAIN r.responsible_ai_checks) = 1
    /\ \A k \in DOMAIN r.responsible_ai_checks :
           /\ r.responsible_ai_checks[k].category = "system_error"
           /\ r.responsible_ai_checks[k].passed = FALSE
           /\ r.responsible_ai_checks[k].risk_level = "medium"

\* C2: when comprehensive_check raises during a handle, the handle returns
\* the core response with agent, text and data unchanged and with exactly one
\* check result, of category system_error, not passed, at medium risk; the
\* request fails only if a domain agent itself raised.
C2_EngineFailureRecovered ==
    /\ (pc = "done" /\ EngineRaisedFor("coordinator"))
           => RecoveredFrom(coreResp, response)
    /\ \A i \in ReturnedCalls :
           EngineRaisedFor(calls[i].agent) => RecoveredFrom(calls[i].core, calls[i].result)
    /\ pc = "raised" => calls # <<>> /\ calls[Len(calls)].status = "raised"

\* a request under a raising engine is answered, by a domain agent whose
\* response carries data
C2_Witness ==
    /\ pc = "done"
    /\ engine = EngineRaises
    /\ EngineRaisedFor("coordinator")
    /\ \E i \in ReturnedCalls :
           /\ EngineRaisedFor(calls[i].agent)
           /\ Has(calls[i].core, "data")
           /\ Has(response, "data")

\* C3: for every combination of the three category verdicts the overall
\* result of comprehensive_check has the highest of the three risk levels
\* under low < medium < high < critical, and passed is the AND of the three.
C3_OverallIsMaxAndAll ==
    eng.stage = "done" =>
        LET v == eng.verdicts
            o == eng.results.overall
        IN  /\ \A i \in 1..3 : RiskIndex(v[i].risk_level) <= RiskIndex(o.risk_level)
            /\ \E i \in 1..3 : v[i].risk_level = o.risk_level
            /\ o.passed = (\A i \in 1..3 : v[i].passed)
            /\ eng.results.fairness = v[1]
            /\ eng.results.transparency = v[2]
            /\ eng.results.ethical_data_handling = v[3]

\* low, critical and medium verdicts, the critical one not passed, aggregate
\* to a critical overall result that is not passed
C3_Witness ==
    /\ eng.stage = "done"
    /\ eng.verdicts[1].risk_level = "low" /\ eng.verdicts[1].passed
    /\ eng.verdicts[2].risk_level = "critical" /\ ~eng.verdicts[2].passed
    /\ eng.verdicts[3].risk_level = "medium" /\ eng.verdicts[3].passed
    /\ eng.results.overall.risk_level = "critical"
    /\ ~eng.results.overall.passed

\* the positions of a text at which a line starts with "- "
BulletStarts(t) ==
    {i \in 1..(Len(t) - 1) :
        SubSeq(t, i, i + 1) = "- " /\ (i = 1 \/ CharAt(t, i - 1) = "\n")}

\* the end of the line that holds position i of a text
LineEnd(t, i) ==
    CHOOSE j \in i..Len(t) :
        /\ \A n \in i..j : CharAt(t, n) # "\n"
        /\ (j = Len(t) \/ CharAt(t, j + 1) = "\n")

\* the bullets of a text: its lines that start with "- "
BulletsOf(t) == {SubSeq(t, i, LineEnd(t, i)) : i \in BulletStarts(t)}

FourBullets ==
    {"- This is AI-generated educational guidance, not medical advice",
     "- Individual results may vary based on personal circumstances",
     "- Please consult healthcare providers for serious sleep disorders",
     "- You have full control over your data and can modify or delete it anytime"}

FiveBullets ==
    FourBullets \cup {"- Your privacy and data security are our top priorities"}

\* r.text is the apology prefix, then the text original unmodified, then a
\* part whose bullets are exactly the given ones
RewrittenWith(r, original, bullets) ==
    LET n    == Len(CRITICAL_PREFIX)
        m    == Len(original)
        tail == SubSeq(r.text, n + m + 1, Len(r.text))
    IN  /\ Len(r.text) >= n + m
        /\ SubSeq(r.text, 1, n) =
               "I apologize, but I need to modify my response to ensure it meets our responsible AI guidelines. "
        /\ SubSeq(r.text, n + 1, n + m) = original
        /\ Contains(r.text, original)
        /\ BulletsOf(tail) = bullets
        /\ Cardinality(BulletStarts(tail)) = Cardinality(bullets)

IsCritical(r) == HasVerdict(r) /\ r.responsible_ai_risk_level = "critical"

\* every response of critical risk is rewritten with the given bullets
CriticalRewrittenWith(bullets) ==
    /\ (pc = "done" /\ IsCritical(response))
           => RewrittenWith(response, coreResp.text, bullets)
    /\ \A i \in ReturnedCalls :
           IsCritical(calls[i].result)
               => RewrittenWith(calls[i].result, calls[i].core.text, bullets)

\* C4: whenever the aggregate risk of a response is critical, its
\* text is the apology prefix, the unmodified original text and exactly the
\* four fixed disclaimer bullets (not medical advice, individual variation,
\* consult a professional, control of one's data) and no other bullet.
C4_FourDisclaimerBullets == CriticalRewrittenWith(FourBullets)

\* C4 amended: whenever the aggregate risk of a response is critical, its text
\* is the apology prefix, the unmodified original text and exactly five fixed
\* disclaimer bullets: the four above and the one on privacy and data security.
C4_FiveDisclaimerBullets == CriticalRewrittenWith(FiveBullets)

\* a critical response of a domain agent has been rewritten, and the
\* Coordinator's wrapper has rewritten it once more
C4_Witness ==
    /\ pc = "done"
    /\ IsCritical(response)
    /\ \E i \in ReturnedCalls :
           /\ IsCritical(calls[i].result)
           /\ calls[i].result.text # calls[i].core.text
           /\ Contains(calls[i].result.text, calls[i].core.text)
    /\ Contains(response.text, coreResp.text)

\* C5: every dispatch of the Coordinator to a domain agent goes through the
\* shared wrapper: the engine has run on the agent's core response with the
\* agent's own action_type before the response is back, and the response
\* carries the wrapper's fields.
C5_EveryDispatchIsChecked ==
    \A i \in ReturnedCalls :
        /\ \E j \in 1..Len(engineLog) :
               /\ engineLog[j].agent = calls[i].agent
               /\ engineLog[j].action_type = action_type(calls[i].agent)
               /\ engineLog[j].text = calls[i].core.text
        /\ HasVerdict(calls[i].result)

-----------------------------------------------------------------------------
(* Properties of the classifier.                                           *)

\* C6: with the primary phase unavailable the classifier returns, for every
\* message, empty and None included, one label of the closed set {analytics,
\* coach, information, nutrition, storyteller, addiction, prediction}, never
\* "no decision".
C6_FallbackIsTotal ==
    (cl.stage = "done" /\ cl.llm = LLMUnavailable) =>
        /\ cl.primary = None
        /\ cl.label # None
        /\ cl.label \in {"analytics", "coach", "information", "nutrition",
                         "storyteller", "addiction", "prediction"}

\* no message at all, an empty one and a blank one each got a label
C6_Witness ==
    /\ cl.stage = "done"
    /\ cl.llm = LLMUnavailable
    /\ cl.msg \in {None, "", "  "}
    /\ cl.label = "coach"

\* the primary phase answered with the dependency label
AnsweredAddiction ==
    cl.llm.kind = "reply" /\ normalize_reply(cl.llm.raw) = "addiction"

\* C7: whenever the primary phase answers addiction and the dependency
\* predicate is false for the message, the classifier does not return
\* addiction: it returns nutrition if the message has substance vocabulary and
\* a personal cue, information if it has substance vocabulary without a
\* personal cue, as the bare word "coffee", and coach otherwise.
C7_GuardDemotesUnconfirmed ==
    (cl.stage = "done" /\ AnsweredAddiction /\ ~cl.dependency) =>
        LET t     == Lower(OrEmpty(cl.msg))
            vocab == \E k \in {"caffeine", "coffee", "alcohol", "nicotine",
                               "smoking", "screen", "screens"} : Contains(t, k)
            cue   == \E k \in personal_cues : Contains(t, k)
        IN  /\ cl.label # "addiction"
            /\ cl.label = IF vocab /\ cue THEN "nutrition"
                          ELSE IF vocab THEN "information"
                          ELSE "coach"
            /\ cl.msg = "coffee" => cl.label = "information"

\* the bare word "coffee", answered addiction by the provider, is classified
\* as information
C7_Witness ==
    /\ cl.stage = "done"
    /\ AnsweredAddiction
    /\ ~cl.dependency
    /\ cl.msg = "coffee"
    /\ cl.label = "information"

-----------------------------------------------------------------------------
(* Properties of the chained dispatch.                                     *)

\* the invocations of the coaching agent in a request of the coaching label
ChainedCoachCalls ==
    {i \in 1..Len(calls) : calls[i].agent = "coach" /\ intent = "coach"}

\* C8: for a request of the coaching label, the context the coaching agent
\* is invoked with carries `analysis` equal to the `data` of
\* the analytics agent's response of the same request, never absent and never
\* the value the caller supplied.
C8_CoachAlwaysCarriesAnalysis ==
    \A i \in ChainedCoachCalls :
        /\ i = 2 /\ calls[1].agent = "analytics" /\ calls[1].status = "returned"
        /\ Has(calls[1].result, "data")
        /\ Has(calls[i].ctx, "analysis")
        /\ calls[i].ctx.analysis = calls[1].result.data

\* C9: for a request of the analytics label the core logic invokes the
\* analytics agent once, never the coaching agent, and returns the analytics
\* agent's response verbatim.
C9_AnalyticsOnly ==
    intent = "analytics" =>
        /\ Len(calls) <= 1
        /\ \A i \in 1..Len(calls) : calls[i].agent = "analytics"
        /\ pc \in {"wrap", "done"} =>
               /\ Len(calls) = 1
               /\ calls[1].status = "returned"
               /\ coreResp = calls[1].result

\* a request of the analytics label has been answered with the analytics
\* agent's response, data included
C9_Witness ==
    /\ intent = "analytics"
    /\ pc = "done"
    /\ Len(calls) = 1
    /\ Has(calls[1].result, "data")
    /\ coreResp = calls[1].result

\* the agents of the invocations, in order
CallOrder == [i \in 1..Len(calls) |-> calls[i].agent]

\* C10: in a chained request the coaching agent is invoked only after the
\* analytics agent's invocation of the same request has returned; the two are
\* never in flight together and never invoked in the reverse order.
C10_CoachAfterAnalytics ==
    /\ [](intent \in {"analytics", "coach"} =>
            /\ Len(inflight) <= 1
            /\ CallOrder \in {<<>>, <<"analytics">>, <<"analytics", "coach">>}
            /\ \A i \in 1..Len(calls) :
                   calls[i].status = "running" => inflight = <<calls[i].agent>>)
    /\ [][(/\ intent \in {"analytics", "coach"}
           /\ Len(calls') = Len(calls) + 1
           /\ calls'[Len(calls')].agent = "coach")
              => (/\ Len(calls) = 1
                  /\ calls[1].agent = "analytics"
                  /\ calls[1].status = "returned"
                  /\ inflight = <<>>)]_vars

\* the coaching agent is in flight after the analytics agent has returned
C10_Witness ==
    /\ intent = "coach"
    /\ inflight = <<"coach">>
    /\ Len(calls) = 2
    /\ calls[1].agent = "analytics" /\ calls[1].status = "returned"
    /\ calls[2].agent = "coach" /\ calls[2].status = "running"

\* the provider replied and the normalized first token of the reply is a
\* label of the closed set
PrimaryDecides ==
    cl.llm.kind = "reply" /\ normalize_reply(cl.llm.raw) \in ALLOWED

\* C14: classification failure is never surfaced: when the primary phase is
\* unavailable, raises, returns nothing or returns a reply whose normalized
\* first token is outside the closed set, the result is the deterministic
\* fallback's label of the message; when the token is in the set the
\* fallback is not consulted and the result is the primary's label after the
\* guard rule.
C14_FailureFallsBack ==
    cl.stage = "done" =>
        /\ cl.label \in ALLOWED
        /\ IF PrimaryDecides
           THEN LET token == normalize_reply(cl.llm.raw) IN
                /\ cl.fallback = None
                /\ cl.label = IF token = "addiction" /\ ~cl.dependency
                              THEN guard_remap(cl.msg)
                              ELSE token
           ELSE /\ cl.primary = None
                /\ cl.fallback = intent_keyword(cl.msg)
                /\ cl.label = intent_keyword(cl.msg)
        /\ cl.llm \in {LLMReply("'information'"), LLMReply("nutrition\n"),
                       LLMReply("\"Storyteller\""), LLMReply("Coach.")}
               => PrimaryDecides
        /\ cl.llm = LLMReply("\"Storyteller\"") => cl.label = "storyteller"
        /\ cl.llm \in {LLMUnavailable, LLMRaises, LLMReply(None), LLMReply(""),
                       LLMReply(" \n"), LLMReply("sleep"),
                       LLMReply("I think coach")}
               => ~PrimaryDecides

\* an out-of-set reply was recovered by the fallback, which gave a label other
\* than the default
C14_Witness ==
    /\ cl.stage = "done"
    /\ cl.llm = LLMReply("I think coach")
    /\ cl.primary = None
    /\ cl.label = "analytics"
    /\ cl.fallback = "analytics"

\* the predicates of the fallback on the classified message, in their fixed
\* order, each with its label
FallbackRules ==
    LET t         == Lower(OrEmpty(cl.msg))
        lifestyle == \E k \in lifestyle_terms : Contains(t, k)
    IN  <<<<\E k \in analytics_keywords : Contains(t, k), "analytics">>,
          <<\E k \in prediction_keywords : Contains(t, k), "prediction">>,
          <<cl.dependency, "addiction">>,
          <<lifestyle /\ \E k \in personal_cues : Contains(t, k), "nutrition">>,
          <<lifestyle /\ \E k \in info_keywords : Contains(t, k), "information">>,
          <<lifestyle, "nutrition">>,
          <<\E k \in coach_keywords : Contains(t, k), "coach">>>>

\* the predicates that match the classified message
MatchingRules == {i \in 1..Len(FallbackRules) : FallbackRules[i][1]}

\* C17: the fallback evaluates its predicates in the order analytics words,
\* prediction words, dependency context, lifestyle with personal cue,
\* lifestyle with neutral phrasing, lifestyle alone, coaching words, and
\* returns the label of the first that matches, coach when none does; a later
\* predicate never overrides an earlier matching one.
C17_FirstMatchWins ==
    (cl.stage = "done" /\ cl.llm = LLMUnavailable) =>
        IF MatchingRules = {}
        THEN cl.label = "coach"
        ELSE LET first == CHOOSE i \in MatchingRules :
                              \A j \in MatchingRules : i <= j
             IN  cl.label = FallbackRules[first][2]

\* a message with a prediction word before an analytics word is labelled
\* analytics
C17_Witness ==
    /\ cl.stage = "done"
    /\ cl.llm = LLMUnavailable
    /\ cl.msg = "tonight Analyze"
    /\ {1, 2} \subseteq MatchingRules
    /\ cl.label = "analytics"

\* this step classifies the request's message with the provider unavailable
FallbackClassification ==
    pc = "core" /\ pc' = "dispatch" /\ llmCalls' = llmCalls

-----------------------------------------------------------------------------
(* Properties of the category checks.                                      *)

\* the leakage scan matches a pattern in the checked text
LeakFound == PrivacyViolations(PrivacyMatches(Lower(chk.text))) # <<>>

\* C18: the ethical-data-handling category returns risk level high for every
\* text in which the leakage scan matches a pattern, whatever its other
\* findings are.
C18_LeakIsHigh ==
    (chk.stage = "done" /\ LeakFound) => chk.ethical.risk_level = "high"

\* transparency is mandatory for the checked action type
Mandatory ==
    chk.action_type \in {"personalized_recommendation", "data_analysis",
                         "pattern_detection", "risk_assessment",
                         "behavioral_change_suggestion", "sleep_coaching_plan"}

\* the checked text lacks one of the three things a mandatory action needs
LacksRequired ==
    \/ ~contains_explanation(Lower(chk.text))
    \/ ~contains_data_source_info(Lower(chk.text))
    \/ ~acknowledges_limitations(Lower(chk.text))

\* the findings of the three requirements of a mandatory action
RequiredFindings ==
    {"Response lacks explanation of AI reasoning",
     "Response doesn't disclose data sources used",
     "Response doesn't acknowledge AI limitations"}

\* C19: for a transparency-mandatory action type the transparency category
\* returns risk level medium for every text that lacks an explanatory
\* connective, a data-source reference or a limitations acknowledgment,
\* whether or not the text identifies itself as AI; for any other action
\* type the three requirements produce no finding.
C19_MandatoryMissingIsMedium ==
    chk.stage = "done" =>
        /\ (Mandatory /\ LacksRequired) => chk.transparency.risk_level = "medium"
        /\ ~Mandatory =>
               \A f \in RequiredFindings : ~Contains(chk.transparency.message, f)

\* the text does not identify itself as AI
NoSelfIdentification == ~has_clear_attribution(Lower(chk.text))

\* there are decision factors and the text does not explain them
FactorsUnexplained ==
    /\ chk.decision_factors # {}
    /\ 2 * Cardinality({f \in chk.decision_factors :
                            Contains(Lower(chk.text), Lower(f))})
           < Cardinality(chk.decision_factors)

\* C20: in the transparency category a missing AI self-identification and
\* unexplained decision_factors are each low-risk findings: when
\* transparency is not mandatory and one or both are the only findings, the
\* result has passed false and risk level low.
C20_BothFindingsLow ==
    (chk.stage = "done" /\ ~Mandatory
        /\ (NoSelfIdentification \/ FactorsUnexplained)) =>
        /\ ~chk.transparency.passed
        /\ chk.transparency.risk_level = "low"

\* C20 amended: when transparency is not mandatory, a missing AI
\* self-identification alone gives passed false and risk level low, and
\* unexplained decision_factors, with or without it, give passed false and
\* risk level medium; with neither finding the check passes at low.
C20_FactorsMediumIdentificationLow ==
    (chk.stage = "done" /\ ~Mandatory) =>
        /\ chk.transparency.passed = ~(NoSelfIdentification \/ FactorsUnexplained)
        /\ chk.transparency.risk_level =
               IF FactorsUnexplained THEN "medium" ELSE "low"

\* a text without self-identification that mentions one of three decision
\* factors got a failed transparency result of medium risk for an action type
\* that is not mandatory
C20_Witness ==
    /\ chk.stage = "done"
    /\ ~Mandatory
    /\ NoSelfIdentification
    /\ FactorsUnexplained
    /\ Contains(chk.text, "Bedtime")
    /\ ~chk.transparency.passed
    /\ chk.transparency.risk_level = "medium"

\* the findings of the fairness check on the checked text
BiasPatternFound == BiasIssues(FairnessMatches(Lower(chk.text))) # <<>>
LowInclusiveScore == InclusiveScoreLow(Lower(chk.text))
LowAccessibilityScore == AccessibilityScoreLow(Lower(chk.text))
StereotypingFound == contains_stereotyping(Lower(chk.text))

\* C21: the fairness category returns risk level high when stereotyping is
\* detected; otherwise medium when a bias pattern matches or when the
\* inclusive-language score or the accessibility score is below its
\* threshold; otherwise low.
C21_FairnessRiskLevels ==
    chk.stage = "done" =>
        chk.fairness.risk_level =
            IF StereotypingFound THEN "high"
            ELSE IF BiasPatternFound \/ LowInclusiveScore \/ LowAccessibilityScore
                 THEN "medium"
            ELSE "low"

\* C27: for every text, action type and context none of the three category
\* checks returns risk level critical, so the overall risk the real engine
\* computes is never critical and the critical rewrite is unreachable
\* through it: the text handle returns equals the text of the agent's core
\* logic.
C27_RealEngineNeverCritical ==
    chk.stage = "done" =>
        /\ chk.fairness.risk_level \in {"low", "medium", "high"}
        /\ chk.transparency.risk_level \in {"low", "medium", "high"}
        /\ chk.ethical.risk_level \in {"low", "medium", "high"}
        /\ chk.returned.responsible_ai_checks.overall.risk_level # "critical"
        /\ chk.returned.responsible_ai_risk_level # "critical"
        /\ chk.returned.text = chk.text
        /\ ~Has(chk.returned.data, "responsible_ai_modification")

\* a text with stereotyping has been returned unchanged, at the highest risk
\* the checks give
C27_Witness ==
    /\ chk.stage = "done"
    /\ chk.text = "It is easy. Given your age, rest."
    /\ chk.fairness.risk_level = "high"
    /\ chk.returned.responsible_ai_risk_level = "high"
    /\ ~chk.returned.responsible_ai_passed
    /\ chk.returned.text = "It is easy. Given your age, rest."

-----------------------------------------------------------------------------
(* Properties of the critical rewrite.                                     *)

\* the three categories of the engine, in the order of their results
CategoryOrder == <<"fairness", "transparency", "ethical_data_handling">>

\* r, the rewritten form of the response core, records the rewrite under
\* data.responsible_ai_modification: the messages of the critical categories
\* and nothing else, their suggestions in order, and the rest of data as it was
ModificationRecorded(core, r) ==
    LET checks   == r.responsible_ai_checks
        critical == SelectSeq(CategoryOrder,
                        LAMBDA k : Has(checks, k) /\ checks[k].risk_level = "critical")
    IN  /\ Has(r, "data")
        /\ Has(r.data, "responsible_ai_modification")
        /\ r.data.responsible_ai_modification.modified = TRUE
        /\ r.data.responsible_ai_modification.critical_issues =
               [i \in 1..Len(critical) |-> checks[critical[i]].message]
        /\ r.data.responsible_ai_modification.modifications_made =
               Flatten([i \in 1..Len(critical) |-> checks[critical[i]].suggestions])
        /\ \A k \in DOMAIN r.data \ {"responsible_ai_modification"} :
               Has(core, "data") /\ Has(core.data, k) /\ r.data[k] = core.data[k]
        /\ Has(core, "data") => DOMAIN core.data \subseteq DOMAIN r.data

\* C22: when a response is rewritten for critical risk,
\* data.responsible_ai_modification is recorded with modified true,
\* critical_issues holding exactly one message per critical-level category
\* (fairness, transparency, ethical data handling) and nothing else, and
\* modifications_made holding exactly those categories' suggestions in order;
\* all other keys of data are left unchanged, and data is created if absent.
C22_ModificationRecord ==
    /\ (pc = "done" /\ IsCritical(response))
           => ModificationRecorded(coreResp, response)
    /\ \A i \in ReturnedCalls :
           IsCritical(calls[i].result)
               => ModificationRecorded(calls[i].core, calls[i].result)

-----------------------------------------------------------------------------
(* Properties of the two wrapper passes of a request.                      *)

\* the agent whose response _handle_core of the Coordinator returned
AnsweringAgent ==
    IF calls = <<>> THEN "coordinator" ELSE calls[Len(calls)].agent

\* the runs of the engine on the response that is returned to the caller:
\* those of the answering agent's wrapper and of the Coordinator's wrapper
ChecksOfReturned ==
    {j \in 1..Len(engineLog) :
        engineLog[j].agent \in {AnsweringAgent, "coordinator"}}

\* how many times the text has been rewritten for critical risk
RewritesOf(t) == Cardinality(Positions(t, CRITICAL_PREFIX))

\* C23: for every request handled by Coordinator.handle the engine is run
\* exactly once on the response that is returned to the caller: a chained or
\* directly dispatched response is not checked a second time by the
\* Coordinator's own wrapper, and a critical rewrite is applied at most once.
C23_CheckedExactlyOnce ==
    pc = "done" =>
        /\ Cardinality(ChecksOfReturned) = 1
        /\ RewritesOf(response.text) <= 1

\* the request is on the chained coaching path, past the analytics agent
ChainedCoaching ==
    /\ intent = "coach"
    /\ pc \in {"chain", "single", "wrap", "done", "raised", "failed"}
    /\ Len(calls) >= 1
    /\ calls[1].agent = "analytics"

\* C24: across one Coordinator.handle call the caller's context is mutated
\* in place only on the chained coaching path and only by setting the key
\* `analysis`; on the greeting, short-circuit, analytics-only and every
\* single-agent dispatch path, and for every other key on the chained path,
\* the Coordinator and the wrapper leave the context unchanged.
C24_OnlyAnalysisIsSet ==
    /\ \A k \in (DOMAIN CallerCtx \cup DOMAIN ctx0) \ {"analysis"} :
           /\ Has(CallerCtx, k) /\ Has(ctx0, k)
           /\ CallerCtx[k] = ctx0[k]
    /\ CallerCtx # ctx0 =>
           /\ ChainedCoaching
           /\ calls[1].status = "returned"
           /\ Has(calls[1].result, "data")
           /\ Has(CallerCtx, "analysis")
           /\ CallerCtx.analysis = calls[1].result.data
    /\ ~ChainedCoaching => CallerCtx = ctx0

\* a coaching request has been answered, and the analysis the caller had put
\* in its context has been replaced by the one of this request
C24_Witness ==
    /\ pc = "done"
    /\ ChainedCoaching
    /\ Has(ctx0, "analysis") /\ Has(ctx0, "logs")
    /\ CallerCtx.analysis # ctx0.analysis
    /\ CallerCtx.analysis = calls[1].result.data
    /\ CallerCtx.logs = ctx0.logs

-----------------------------------------------------------------------------
(* Properties of the state kept between requests.                          *)

\* C25: request handling keeps no state that outlives a request: for any two
\* requests handled by the shared instance, in sequence or interleaved at
\* their suspension points, the set of possible responses to each request is
\* the same as if it were handled alone by a freshly constructed instance;
\* for a story request answered from the fallback stories, that set is every
\* fallback story.
C25_ResponsesAsIfFresh ==
    st.stage = "serving" =>
        \A t \in StoryTasks :
            (st.tasks[t].pc = "done" /\ st.tasks[t].generation_method = "fallback")
                => st.tasks[t].offered = {0, 1, 2}

\* the calls recorded for the address of the last request, before it, that
\* lie within the hour that ends with it
CallsInTheHourBefore ==
    Cardinality({i \in 1..Len(rl.last.before) :
                    rl.last.before[i] > rl.last.at - 3600})

\* the calls recorded for that address within the same hour, after it
CallsInTheHourAfter ==
    IF rl.last.ip \in DOMAIN rl.limiter.requests
    THEN Cardinality({i \in 1..Len(rl.limiter.requests[rl.last.ip]) :
                         rl.limiter.requests[rl.last.ip][i] > rl.last.at - 3600})
    ELSE 0

\* C26: for any client IP, requests to the /chat/stream endpoint are limited
\* to 15 per hour: within any hour the first 15 calls to
\* validate_request_security for that path are allowed and the next one is
\* rejected with status 429, and a rejected request is not recorded against
\* the IP's count.
C26_StreamLimitedTo15 ==
    (rl.stage = "serving" /\ rl.last.path = "/chat/stream" /\ rl.only_stream) =>
        IF CallsInTheHourBefore < 15
        THEN /\ rl.last.status # 429
             /\ CallsInTheHourAfter = CallsInTheHourBefore + 1
        ELSE /\ rl.last.status = 429
             /\ CallsInTheHourAfter = CallsInTheHourBefore

-----------------------------------------------------------------------------
(* Properties of the language-model adapter.                               *)

\* the models in the order the adapter is to try them: the preferred model,
\* the fallbacks of the environment, the default fallbacks, each once
ExpectedOrder ==
    IF ad.model_name = "gemini-2.5-flash"
    THEN IF ad.env_val \in {None, ""}
         THEN <<"gemini-2.5-flash", "gemini-2.0-flash", "gemini-2.0-flash-exp",
                "gemini-1.5-flash", "gemini-1.5-flash-8b">>
         ELSE <<"gemini-2.5-flash", "gemini-pro", "gemini-2.0-flash",
                "gemini-2.0-flash-exp", "gemini-1.5-flash",
                "gemini-1.5-flash-8b">>
    ELSE IF ad.env_val \in {None, ""}
         THEN <<"gemini-2.0-flash-exp", "gemini-2.0-flash", "gemini-1.5-flash",
                "gemini-1.5-flash-8b">>
         ELSE <<"gemini-2.0-flash-exp", "gemini-pro", "gemini-2.0-flash",
                "gemini-1.5-flash", "gemini-1.5-flash-8b">>

\* C15: the adapter tries the model identifiers in list order, the preferred
\* model first, then the fallbacks, duplicates removed; it returns the text
\* of the first model that yields a non-empty reply without trying a later
\* model; it returns nothing when credentials are missing or when every
\* model fails or replies empty.
C15_FirstNonEmptyModel ==
    /\ ad.stage \in {"trying", "done"} =>
           /\ Len(ad.tried) <= Len(ExpectedOrder)
           /\ ad.tried = SubSeq(ExpectedOrder, 1, Len(ad.tried))
           /\ ~ad.credentials => ad.tried = <<>>
    /\ ad.stage = "done" =>
           LET answers == {i \in 1..Len(ExpectedOrder) :
                               ad.provider[ExpectedOrder[i]] = "text"}
           IN  IF ad.credentials /\ answers # {}
               THEN LET first == CHOOSE i \in answers : \A j \in answers : i <= j
                    IN  /\ Len(ad.tried) = first
                        /\ ad.result = " reply of " \o ExpectedOrder[first] \o "\n"
               ELSE /\ ad.result = None
                    /\ ad.credentials => ad.tried = ExpectedOrder

\* the preferred model raised, the environment's fallback replied blank and
\* the third model of the list answered
C15_Witness ==
    /\ ad.stage = "done"
    /\ ad.credentials
    /\ ad.tried = <<"gemini-2.0-flash-exp", "gemini-pro", "gemini-2.0-flash">>
    /\ ad.provider["gemini-2.0-flash-exp"] = "raises"
    /\ ad.result = " reply of gemini-2.0-flash\n"

-----------------------------------------------------------------------------
(* Properties of the branches of _handle_core that bypass the classifier.  *)

\* the request's message is empty, whitespace only, or one greeting token
\* after trimming and lower-casing
GreetingMessage ==
    \/ message = None
    \/ Strip(message) = ""
    \/ Lower(Strip(message)) \in {"hi", "hello", "hey"}

\* a request is being served whose message is not a greeting and fires the
\* dependency-context predicate
DependencyRequest ==
    pc # "idle" /\ ~GreetingMessage /\ detect_addiction_context(message)

\* C11: for a non-empty, non-greeting message on which the dependency-context
\* predicate fires, the Coordinator dispatches directly to the addiction
\* agent: neither phase of the classifier runs (no provider call, no label),
\* no other domain agent is invoked, and the response's agent is "addiction".
C11_DependencyShortCircuit ==
    DependencyRequest =>
        /\ intent = NoIntent
        /\ llmCalls = 0
        /\ Len(calls) <= 1
        /\ \A i \in 1..Len(calls) : calls[i].agent = "addiction"
        /\ pc = "done" =>
               /\ Len(calls) = 1
               /\ calls[1].status = "returned"
               /\ response.agent = "addiction"

\* a dependency message has been answered by the addiction agent
C11_Witness ==
    /\ DependencyRequest
    /\ pc = "done"
    /\ Contains(message, "too much")
    /\ response.agent = "addiction"
    /\ Len(engineLog) = 2

\* C12: for an empty, whitespace-only or bare greeting message,
\* Coordinator.handle returns a response of agent "coordinator" whose text
\* contains every welcome-menu bullet, and neither the dependency dispatch,
\* nor the classifier, nor a provider call, nor a domain agent has run.
C12_GreetingWelcome ==
    (pc # "idle" /\ GreetingMessage) =>
        /\ calls = <<>>
        /\ inflight = <<>>
        /\ llmCalls = 0
        /\ intent = NoIntent
        /\ pc \in {"core", "wrap", "done"}
        /\ pc = "done" =>
               /\ response.agent = "coordinator"
               /\ \A i \in 1..Len(WELCOME_MENU) :
                      Contains(response.text, WELCOME_MENU[i])

\* a greeting token with trailing space has been answered with the menu
C12_Witness ==
    /\ pc = "done"
    /\ message # None
    /\ Lower(Strip(message)) = "hello"
    /\ response.agent = "coordinator"
    /\ Contains(response.text, WELCOME_MENU[Len(WELCOME_MENU)])
    /\ calls = <<>>

\* C13: every inbound chat message yields a response: when a domain agent
\* dispatched by the Coordinator raises, the failure stops at the request
\* boundary and the request ends with a minimal response of an agent and an
\* apology text.
C13_EveryMessageAnswered ==
    pc \in {"done", "failed"} =>
        /\ response # NoResponse
        /\ Has(response, "agent")
        /\ Has(response, "text")

-----------------------------------------------------------------------------
(* Properties of the verdict the caller sees.                              *)

\* the verdict of the answering agent's own wrapper, if it has one
AgentVerdict ==
    IF calls # <<>> /\ HasVerdict(calls[Len(calls)].result)
    THEN calls[Len(calls)].result.responsible_ai_checks
    ELSE EmptyDict

\* C28: for every non-greeting request the responsible_ai_checks,
\* responsible_ai_passed and responsible_ai_risk_level of the response
\* Coordinator.handle returns are those of the Coordinator's own wrapper pass
\* with action type "request_routing", which overwrite the verdict of the
\* answering agent's wrapper; so the mandatory transparency requirements are
\* never applied in the caller-visible verdict, whichever agent answered.
C28_VisibleVerdictIsRoutingVerdict ==
    (pc = "done" /\ ~GreetingMessage) =>
        /\ engineLog # <<>>
        /\ engineLog[Len(engineLog)].agent = "coordinator"
        /\ engineLog[Len(engineLog)].action_type = "request_routing"
        /\ engineLog[Len(engineLog)].text = coreResp.text
        /\ HasVerdict(response)
        /\ engine.kind = "real" =>
               LET visible == response.responsible_ai_checks IN
               /\ visible.fairness = check_fairness(coreResp.text)
               /\ visible.transparency =
                      check_transparency(coreResp.text, "request_routing",
                                         decision_factors_of(coreResp))
               /\ visible.ethical_data_handling =
                      check_ethical_data_handling(coreResp.text, DOMAIN CallerCtx)
               /\ response.responsible_ai_passed = visible.overall.passed
               /\ response.responsible_ai_risk_level = visible.overall.risk_level
               /\ \A f \in RequiredFindings :
                      ~Contains(visible.transparency.message, f)

\* the coaching agent's wrapper had found the mandatory explanation missing,
\* and the verdict the caller sees does not say so
C28_Witness ==
    /\ pc = "done"
    /\ engine.kind = "real"
    /\ AnsweringAgent = "coach"
    /\ Has(AgentVerdict, "transparency")
    /\ Contains(AgentVerdict.transparency.message,
                "Response lacks explanation of AI reasoning")
    /\ ~Contains(response.responsible_ai_checks.transparency.message,
                 "Response lacks explanation of AI reasoning")
    /\ response.responsible_ai_checks # AgentVerdict

-----------------------------------------------------------------------------
(* Properties of the labels the classifier can give.                       *)

\* a domain agent has been invoked in this request
Invoked(a) == \E i \in 1..Len(calls) : calls[i].agent = a

\* _handle_core is past its dispatch
Dispatched == pc \in {"analyst", "chain", "single", "wrap", "done", "raised", "failed"}

\* C29: within Coordinator._handle_core the addiction agent is dispatched if
\* and only if the message is not a greeting or empty and the
\* dependency-context predicate fires on it: once the short-circuit has not
\* fired, neither phase of the classifier yields the addiction label, so the
\* `intent == "addiction"` dispatch branch is never taken.
C29_AddictionOnlyByShortCircuit ==
    /\ intent # "addiction"
    /\ Invoked("addiction") =>
           /\ ~GreetingMessage
           /\ detect_addiction_context(message)
           /\ intent = NoIntent
           /\ llmCalls = 0
    /\ (Dispatched /\ ~GreetingMessage /\ detect_addiction_context(message))
           => Invoked("addiction")

\* the provider answered addiction for the bare word "coffee", the guard
\* demoted the answer, and the information agent has answered
C29_Witness ==
    /\ pc = "done"
    /\ message = "coffee"
    /\ llmCalls = 1
    /\ intent = "information"
    /\ Invoked("information")
    /\ ~Invoked("addiction")

-----------------------------------------------------------------------------
(* Properties of the fallback's labels.                                    *)

\* the provider behaviours under which the primary phase cannot decide: it is
\* unavailable, it raises, or it replies nothing or a word that is no label
NoDecisionOutcome ==
    \/ cl.llm.kind \in {"unavailable", "raises"}
    \/ /\ cl.llm.kind = "reply"
       /\ normalize_reply(cl.llm.raw) \notin ALLOWED

\* C30: the deterministic fallback never returns the storyteller label, so
\* whenever the primary phase is unavailable or yields no decision the
\* classification is not storyteller and the agent the Coordinator
\* dispatches is not the storyteller agent, for every message, the welcome
\* menu's own "Tell me a bedtime story" included.
C30_FallbackNeverStoryteller ==
    cl.stage = "done" =>
        /\ intent_keyword(cl.msg) # "storyteller"
        /\ NoDecisionOutcome => cl.primary = None
        /\ cl.primary = None =>
               /\ cl.fallback = intent_keyword(cl.msg)
               /\ cl.label = cl.fallback
               /\ cl.label # "storyteller"
               /\ ~chained(cl.label) => single_target(cl.label) # "storyteller"

\* the provider raised on the welcome menu's story request, and the fallback
\* labelled it prediction
C30_Witness ==
    /\ cl.stage = "done"
    /\ cl.msg = "Tell me a bedtime story"
    /\ cl.llm = LLMRaises
    /\ cl.primary = None
    /\ cl.fallback = "prediction"
    /\ cl.label = "prediction"
    /\ single_target(cl.label) = "prediction"

====
